---- MODULE Spec2Model ----
(***************************************************************************)
(* PromptLab: the settings store (src/core/config_manager.py), the legacy  *)
(* settings functions (config.py), the model registry and pricing          *)
(* (src/models/models.py) and the completion client                        *)
(* (src/services/azure_ai_service.py), as state machines.                  *)
(*                                                                         *)
(* Python values are modelled as follows.  A dict of settings is a total   *)
(* function over Keys whose value Missing marks a key the dict does not    *)
(* hold.  Setting values are opaque tokens (strings).  The two outcomes    *)
(* of a Python call are a normal return (exc = NoExc) or a raised          *)
(* exception (exc = the exception's class name).                           *)
(***************************************************************************)
EXTENDS Integers, Sequences, FiniteSets, TLC

VARIABLES
    file,     \* content of the settings file on disk
    mgr,      \* mgr[i]: fields _cache and _cache_dirty of ConfigManager instance i
    ret,      \* the last operation: what was called and what it returned or raised
    pinned,   \* history: pinned[i][k] is the value of the last successful set(k, v) on
              \* instance i, Missing after a later set/update on i that names k
    writer,   \* history: the instance whose save produced the file's content, if any
    sent,     \* the requests the completion client has sent to the remote endpoint
    pc,       \* pc[i]: where session i is inside _save_config, or Idle
    session   \* st.session_state of one browser session: last_response, responses
              \* and chain_state

vars == <<file, mgr, ret, pinned, writer, sent, pc, session>>

----------------------------------------------------------------------------
(* Bounds *)

\* number of distinct setting values a caller may write
NumVals == 2

ValNames == <<"v1", "v2", "v3", "v4">>

Values == {ValNames[n] : n \in 1..NumVals}

\* the settings keys the store model writes (two of the five the program uses)
Keys == {"visible_models", "max_tokens"}

\* two sessions, each holding its own ConfigManager
Instances == {"A", "B"}

\* the session the single-instance specifications follow
Self == "A"

----------------------------------------------------------------------------
(* Python values *)

NoExc == "none"

Missing == "MISSING"

PyNone == "None"

Docs == [Keys -> Values \cup {Missing}]

\* {} : the empty dict
EmptyDict == [k \in Keys |-> Missing]

\* a Python value held in _cache: None, a dict, or what json.load gives for a
\* document whose top level is a list or a number
PyDict(d) == [kind |-> "dict", doc |-> d]

PyOther(kind) == [kind |-> kind, doc |-> EmptyDict]

CacheValues == {PyOther("None"), PyOther("list"), PyOther("int")} \cup {PyDict(d) : d \in Docs}

\* dict.get(key, default)
dict_get(d, key, default) ==
    IF key \in DOMAIN d /\ d[key] # Missing THEN d[key] ELSE default

\* a dict.update that keeps the value of a key the dict already holds
dict_update_keep(d, updates) ==
    [k \in Keys |-> IF d[k] # Missing THEN d[k] ELSE updates[k]]

\* a dict.update that replaces the dict by the updates
dict_update_replace(d, updates) == updates

\* dict.update(updates), and d[key] = value as the one-key case
dict_update(d, updates) ==
    [k \in Keys |-> IF updates[k] # Missing THEN updates[k] ELSE d[k]]

OneKey(key, value) == [k \in Keys |-> IF k = key THEN value ELSE Missing]

----------------------------------------------------------------------------
(* The settings file *)

\* absent: no such file; unreadable: open() raises OSError; empty: zero bytes;
\* garbage: text that is not JSON (also a partially written document);
\* bytes: not valid UTF-8; list, number, null: valid JSON that is not an object;
\* object: a JSON object, whose members are doc
BadKinds == {"absent", "unreadable", "empty", "garbage", "bytes", "list", "number", "null"}

FileOf(kind) == [kind |-> kind, doc |-> EmptyDict]

FileContents == {FileOf(k) : k \in BadKinds} \cup {[kind |-> "object", doc |-> d] : d \in Docs}

\* json.load(f): the parsed value, or the exception raised
json_load(f) ==
    CASE f.kind \in {"empty", "garbage"} -> [exc |-> "JSONDecodeError", value |-> PyOther("None")]
      [] f.kind = "bytes"  -> [exc |-> "UnicodeDecodeError", value |-> PyOther("None")]
      [] f.kind = "list"   -> [exc |-> NoExc, value |-> PyOther("list")]
      [] f.kind = "number" -> [exc |-> NoExc, value |-> PyOther("int")]
      [] f.kind = "null"   -> [exc |-> NoExc, value |-> PyOther("None")]
      [] f.kind = "object" -> [exc |-> NoExc, value |-> PyDict(f.doc)]

\* json.dump(config, f) of a dict: the document written
json_dump(d) == [kind |-> "object", doc |-> d]

----------------------------------------------------------------------------
(* ConfigManager *)

\* ConfigManager.__init__
NewManager == [cache |-> PyOther("None"), cache_dirty |-> FALSE]

\* a session that is not inside _save_config
Idle == [at |-> "idle", op |-> "-", doc |-> EmptyDict]

\* a key st.session_state does not hold, and a chain stage without a response
Absent == [kind |-> "absent"]

\* chain_state as show_chain_view initialises it, and as Reset leaves it
NewChainState ==
    [stage |-> 1, responses |-> [n \in 1..3 |-> Absent],
     user_prompt |-> [kind |-> "str", chars |-> <<>>]]

\* st.session_state of a new browser session, once the chain view has rendered
NewSession == [last_response |-> Absent, responses |-> Absent, chain_state |-> NewChainState]

\* _load_config: the value returned (which is self._cache itself), the instance
\* afterwards, and the exception if one escapes
LoadConfig(m, f) ==
    IF m.cache.kind # "None" /\ ~m.cache_dirty
    THEN [exc |-> NoExc, config |-> m.cache, mgr |-> m]
    ELSE IF f.kind = "absent"
    THEN [exc |-> NoExc, config |-> PyDict(EmptyDict), mgr |-> [m EXCEPT !.cache = PyDict(EmptyDict)]]
    ELSE IF f.kind = "unreadable"
    THEN [exc |-> NoExc, config |-> PyDict(EmptyDict), mgr |-> [m EXCEPT !.cache = PyDict(EmptyDict)]]
    ELSE LET r == json_load(f) IN
         IF r.exc = "JSONDecodeError"
         THEN [exc |-> NoExc, config |-> PyDict(EmptyDict), mgr |-> [m EXCEPT !.cache = PyDict(EmptyDict)]]
         ELSE IF r.exc # NoExc
         THEN [exc |-> r.exc, config |-> PyOther("None"), mgr |-> m]
         ELSE [exc |-> NoExc, config |-> r.value,
               mgr |-> [cache |-> r.value, cache_dirty |-> FALSE]]

\* what a save can meet: the write succeeds, open() fails (the file is left as
\* it was), or a write fails after the file was truncated
IoOutcomes == {"ok", "open_fails", "write_fails"}

\* _save_config(config) on an instance whose _cache is already the mutated
\* config (set and update change the dict _load_config returned, in place)
SaveConfig(m, f, d, io) ==
    CASE io = "ok" ->
           [exc |-> NoExc, file |-> json_dump(d),
            mgr |-> [cache |-> PyDict(d), cache_dirty |-> FALSE]]
      [] io = "open_fails" ->
           [exc |-> "OSError", file |-> f, mgr |-> m]
      [] io = "write_fails" ->
           [exc |-> "OSError", file |-> FileOf("garbage"), mgr |-> m]

\* get(key, default) that forgets the caller's default
ConfigGet_NoDefault(m, f, key, default) ==
    LET l == LoadConfig(m, f) IN
    IF l.exc # NoExc
    THEN [exc |-> l.exc, val |-> PyNone, mgr |-> l.mgr, file |-> f]
    ELSE IF l.config.kind # "dict"
    THEN [exc |-> "AttributeError", val |-> PyNone, mgr |-> l.mgr, file |-> f]
    ELSE [exc |-> NoExc, val |-> dict_get(l.config.doc, key, PyNone), mgr |-> l.mgr, file |-> f]

\* get(key, default): the result, the instance afterwards, and the file, which
\* no statement of get or _load_config writes
ConfigGet(m, f, key, default) ==
    LET l == LoadConfig(m, f) IN
    IF l.exc # NoExc
    THEN [exc |-> l.exc, val |-> PyNone, mgr |-> l.mgr, file |-> f]
    ELSE IF l.config.kind # "dict"
    THEN [exc |-> "AttributeError", val |-> PyNone, mgr |-> l.mgr, file |-> f]
    ELSE [exc |-> NoExc, val |-> dict_get(l.config.doc, key, default), mgr |-> l.mgr, file |-> f]

\* the body shared by set and update: load, change the loaded dict in place,
\* save.  notDict is the exception the change raises on a value that is no dict.
WriteThrough(m, f, updates, io, notDict) ==
    LET l == LoadConfig(m, f) IN
    IF l.exc # NoExc
    THEN [exc |-> l.exc, file |-> f, mgr |-> l.mgr]
    ELSE IF l.config.kind # "dict"
    THEN [exc |-> notDict, file |-> f, mgr |-> l.mgr]
    ELSE LET d == dict_update(l.config.doc, updates) IN
         SaveConfig([l.mgr EXCEPT !.cache = PyDict(d)], f, d, io)

\* set(key, value)
ConfigSet(m, f, key, value, io) == WriteThrough(m, f, OneKey(key, value), io, "TypeError")

\* update(updates)
ConfigUpdate(m, f, updates, io) == WriteThrough(m, f, updates, io, "AttributeError")

\* the typed getters
get_visible_models(m, f) == ConfigGet(m, f, "visible_models", "['GPT-4o']")

get_pricing_visibility(m, f) == ConfigGet(m, f, "show_pricing", "False")

get_max_tokens(m, f) == ConfigGet(m, f, "max_tokens", "1000")

get_comparison_mode(m, f) == ConfigGet(m, f, "comparison_mode", "False")

get_generate_prompt_enabled(m, f) == ConfigGet(m, f, "generate_prompt_enabled", "False")

\* the default each typed getter passes for its key
BuiltinDefault(key) ==
    CASE key = "visible_models" -> "['GPT-4o']"
      [] key = "max_tokens" -> "1000"
      [] OTHER -> "False"

----------------------------------------------------------------------------
(* The store as a state machine: one ConfigManager, and the other sessions *)
(* that save their own documents to the same file                         *)

StoreRet(op, i, key, dflt, arg, val, exc) ==
    [op |-> op, inst |-> i, key |-> key, dflt |-> dflt, arg |-> arg, val |-> val, exc |-> exc]

StoreInit ==
    /\ file \in FileContents
    /\ mgr = [i \in {Self} |-> NewManager]
    /\ ret = StoreRet("init", Self, "-", "-", EmptyDict, "-", NoExc)
    /\ pinned = [i \in {Self} |-> EmptyDict]
    /\ writer = "none"
    /\ sent = <<>>
    /\ pc = [i \in {Self} |-> Idle]
    /\ session = NewSession

\* instance i: get(key, default), the default None or the typed getter's
Get(i, key, default) ==
    LET r == ConfigGet(mgr[i], file, key, default) IN
    /\ mgr' = [mgr EXCEPT ![i] = r.mgr]
    /\ file' = r.file
    /\ ret' = StoreRet("get", i, key, default, EmptyDict, r.val, r.exc)
    /\ UNCHANGED <<pinned, writer, sent, pc, session>>

\* instance i: set(key, value)
Set(i, key, value, io) ==
    LET r == ConfigSet(mgr[i], file, key, value, io) IN
    /\ mgr' = [mgr EXCEPT ![i] = r.mgr]
    /\ file' = r.file
    /\ ret' = StoreRet("set", i, "-", "-", OneKey(key, value), "-", r.exc)
    /\ pinned' = [pinned EXCEPT ![i][key] = IF r.exc = NoExc THEN value ELSE Missing]
    /\ UNCHANGED <<writer, sent, pc, session>>

\* instance i: update(updates)
Update(i, updates, io) ==
    LET r == ConfigUpdate(mgr[i], file, updates, io) IN
    /\ mgr' = [mgr EXCEPT ![i] = r.mgr]
    /\ file' = r.file
    /\ ret' = StoreRet("update", i, "-", "-", updates, "-", r.exc)
    /\ pinned' = [pinned EXCEPT ![i] =
                    [k \in Keys |-> IF updates[k] # Missing THEN Missing ELSE pinned[i][k]]]
    /\ UNCHANGED <<writer, sent, pc, session>>

\* another session's ConfigManager saves its own cached document d
OtherSessionSave(d, io) ==
    /\ file' = SaveConfig(NewManager, file, d, io).file
    /\ ret' = StoreRet("other", "B", "-", "-", EmptyDict, "-", NoExc)
    /\ UNCHANGED <<mgr, pinned, writer, sent, pc, session>>

StoreStep(ios) ==
    \/ \E k \in Keys : \E d \in {PyNone, BuiltinDefault(k)} : Get(Self, k, d)
    \/ \E k \in Keys, v \in Values, io \in ios : Set(Self, k, v, io)
    \/ \E u \in Docs, io \in ios : Update(Self, u, io)
    \/ \E d \in Docs, io \in ios : OtherSessionSave(d, io)

StoreNext == StoreStep(IoOutcomes)

SpecStore == StoreInit /\ [][StoreNext]_vars

\* the same store where nothing is wrong: no write fails, and the file is at
\* first absent, empty or a settings document
HealthyInit ==
    /\ StoreInit
    /\ file.kind \in {"absent", "empty", "object"}

HealthyNext == StoreStep({"ok"})

SpecStoreHealthy == HealthyInit /\ [][HealthyNext]_vars

----------------------------------------------------------------------------
(* Two sessions, each with its own ConfigManager, sharing one settings file. *)
(* _file_lock holds no lock, so the steps of one session's save (open, which  *)
(* truncates; then the write, when the file is closed) interleave with the    *)
(* other session's.                                                          *)

\* the size of the text json.dump writes for a document, settings of one length
DocSize(d) == 1 + Cardinality({k \in Keys : d[k] # Missing})

\* open(config_file, 'w'): the file is truncated, or open raises
SaveOpen(f, io) ==
    IF io = "open_fails"
    THEN [exc |-> "OSError", file |-> f]
    ELSE [exc |-> NoExc, file |-> FileOf("empty")]

\* json.dump and close: the text of d is written from offset 0 over what the
\* file holds by then, and text of a longer document stays behind it.  The
\* result is the set of files the write can leave.
SaveWrite(f, d) ==
    CASE f.kind \in {"absent", "empty"} -> {json_dump(d)}
      [] f.kind = "object" ->
           {IF DocSize(f.doc) <= DocSize(d) THEN json_dump(d) ELSE FileOf("garbage")}
      [] OTHER -> {json_dump(d), FileOf("garbage")}

\* what open() can meet in the sessions' saves
SharedIo == {"ok", "open_fails"}

SharedRet(op, i, exc, io) == [op |-> op, inst |-> i, exc |-> exc, io |-> io]

\* where a session is in _save_config: outside it, or between open and close
\* with the document d to write
Opened(op, d) == [at |-> "opened", op |-> op, doc |-> d]

SharedInit ==
    /\ file \in FileContents
    /\ mgr = [i \in Instances |-> NewManager]
    /\ ret = SharedRet("init", Self, NoExc, "ok")
    /\ pinned = [i \in Instances |-> EmptyDict]
    /\ writer = "none"
    /\ sent = <<>>
    /\ pc = [i \in Instances |-> Idle]
    /\ session = NewSession

\* session i reads a setting
SharedGet(i, key) ==
    LET r == ConfigGet(mgr[i], file, key, PyNone) IN
    /\ pc[i] = Idle
    /\ mgr' = [mgr EXCEPT ![i] = r.mgr]
    /\ file' = r.file
    /\ ret' = SharedRet("get", i, r.exc, "ok")
    /\ UNCHANGED <<pinned, writer, sent, pc, session>>

\* session i calls set or update: it loads, changes the loaded dict in place and
\* opens the file for writing, or raises before that
SharedBegin(op, i, updates, io, notDict) ==
    LET l == LoadConfig(mgr[i], file) IN
    /\ pc[i] = Idle
    /\ IF l.exc # NoExc \/ l.config.kind # "dict"
       THEN /\ mgr' = [mgr EXCEPT ![i] = l.mgr]
            /\ ret' = SharedRet(op, i, IF l.exc # NoExc THEN l.exc ELSE notDict, io)
            /\ UNCHANGED <<file, pc>>
       ELSE LET d == dict_update(l.config.doc, updates)
                o == SaveOpen(file, io)
            IN  /\ mgr' = [mgr EXCEPT ![i] = [l.mgr EXCEPT !.cache = PyDict(d)]]
                /\ file' = o.file
                /\ IF o.exc # NoExc
                   THEN /\ ret' = SharedRet(op, i, o.exc, io)
                        /\ pc' = pc
                   ELSE /\ ret' = SharedRet("open", i, NoExc, io)
                        /\ pc' = [pc EXCEPT ![i] = Opened(op, d)]
    /\ UNCHANGED <<pinned, writer, sent, session>>

\* session i: set(key, value)
SharedSet(i, key, value, io) == SharedBegin("set", i, OneKey(key, value), io, "TypeError")

\* session i: update(updates)
SharedUpdate(i, updates, io) == SharedBegin("update", i, updates, io, "AttributeError")

\* session i writes its document, closes the file and returns from set or
\* update
SharedFinish(i) ==
    /\ pc[i] # Idle
    /\ file' \in SaveWrite(file, pc[i].doc)
    /\ mgr' = [mgr EXCEPT ![i] = [cache |-> PyDict(pc[i].doc), cache_dirty |-> FALSE]]
    /\ writer' = i
    /\ ret' = SharedRet(pc[i].op, i, NoExc, "ok")
    /\ pc' = [pc EXCEPT ![i] = Idle]
    /\ UNCHANGED <<pinned, sent, session>>

SharedNext ==
    \/ \E i \in Instances, k \in Keys : SharedGet(i, k)
    \/ \E i \in Instances, k \in Keys, v \in Values, io \in SharedIo : SharedSet(i, k, v, io)
    \/ \E i \in Instances, u \in Docs, io \in SharedIo : SharedUpdate(i, u, io)
    \/ \E i \in Instances : SharedFinish(i)

SpecShared == SharedInit /\ [][SharedNext]_vars

----------------------------------------------------------------------------
(* config.py: the module-level settings functions, which read and write the *)
(* file on every call                                                      *)

LegacyKeys == {"visible_models", "max_tokens", "show_pricing", "comparison_mode"}

LegacyDocs == [LegacyKeys -> Values \cup {Missing}]

LegacyDefault(key) ==
    CASE key = "visible_models" -> "['GPT-4o']"
      [] key = "max_tokens" -> "1000"
      [] key = "show_pricing" -> "False"
      [] key = "comparison_mode" -> "False"

\* get_visible_models, get_pricing_visibility, get_max_tokens and
\* get_comparison_mode: the same body, each with its key and default
LegacyGet(f, key) ==
    IF f.kind = "absent"
    THEN [exc |-> NoExc, val |-> LegacyDefault(key)]
    ELSE IF f.kind = "unreadable"
    THEN [exc |-> NoExc, val |-> LegacyDefault(key)]
    ELSE LET r == json_load(f) IN
         IF r.exc # NoExc \/ r.value.kind # "dict"
         THEN [exc |-> NoExc, val |-> LegacyDefault(key)]
         ELSE [exc |-> NoExc, val |-> dict_get(r.value.doc, key, LegacyDefault(key))]

\* set_visible_models, set_pricing_visibility, set_max_tokens and
\* set_comparison_mode: the same body, each with its key
LegacySet(f, key, value, io) ==
    IF f.kind = "absent"
    THEN [exc |-> "FileNotFoundError", file |-> f]
    ELSE IF f.kind = "unreadable"
    THEN [exc |-> "OSError", file |-> f]
    ELSE LET r == json_load(f) IN
         IF r.exc # NoExc
         THEN [exc |-> r.exc, file |-> f]
         ELSE IF r.value.kind # "dict"
         THEN [exc |-> "TypeError", file |-> f]
         ELSE CASE io = "ok" ->
                     [exc |-> NoExc, file |-> json_dump([r.value.doc EXCEPT ![key] = value])]
                [] io = "open_fails" -> [exc |-> "OSError", file |-> f]
                [] io = "write_fails" -> [exc |-> "OSError", file |-> FileOf("garbage")]

\* the order in which the admin page's Save All Settings calls the setters
SaveOrder == <<"visible_models", "max_tokens", "show_pricing", "comparison_mode">>

\* Save All Settings from the n-th setter on: each setter in turn, stopping at
\* the first that raises.  io is the outcome the first failAt-1 writes do not
\* meet: write number failAt meets it, the others succeed.
RECURSIVE SaveFrom(_, _, _, _, _)
SaveFrom(f, n, vals, failAt, io) ==
    IF n > Len(SaveOrder)
    THEN [exc |-> NoExc, file |-> f, key |-> "-"]
    ELSE LET r == LegacySet(f, SaveOrder[n], vals[SaveOrder[n]],
                            IF n = failAt THEN io ELSE "ok") IN
         IF r.exc # NoExc
         THEN [exc |-> r.exc, file |-> r.file, key |-> SaveOrder[n]]
         ELSE SaveFrom(r.file, n + 1, vals, failAt, io)

LegacyRet(op, key, val, exc, prior, io) ==
    [op |-> op, key |-> key, val |-> val, exc |-> exc, prior |-> prior, io |-> io]

LegacyInit ==
    /\ file \in {FileOf(k) : k \in BadKinds} \cup {[kind |-> "object", doc |-> d] : d \in LegacyDocs}
    /\ mgr = [i \in {Self} |-> NewManager]
    /\ ret = LegacyRet("init", "-", "-", NoExc, "-", "ok")
    /\ pinned = [i \in {Self} |-> EmptyDict]
    /\ writer = "none"
    /\ sent = <<>>
    /\ pc = [i \in {Self} |-> Idle]
    /\ session = NewSession

\* a call of one of the getters
CallLegacyGet(key) ==
    LET r == LegacyGet(file, key) IN
    /\ ret' = LegacyRet("get", key, r.val, r.exc, file.kind, "ok")
    /\ UNCHANGED <<file, mgr, pinned, writer, sent, pc, session>>

\* a call of one of the setters
CallLegacySet(key, value, io) ==
    LET r == LegacySet(file, key, value, io) IN
    /\ file' = r.file
    /\ ret' = LegacyRet("set", key, value, r.exc, file.kind, io)
    /\ UNCHANGED <<mgr, pinned, writer, sent, pc, session>>

\* the admin page's Save All Settings button
SaveAllSettings(vals, failAt, io) ==
    LET r == SaveFrom(file, 1, vals, failAt, io) IN
    /\ file' = r.file
    /\ ret' = LegacyRet("save_all", r.key, "-", r.exc, file.kind, IF failAt = 0 THEN "ok" ELSE io)
    /\ UNCHANGED <<mgr, pinned, writer, sent, pc, session>>

LegacyNext ==
    \/ \E k \in LegacyKeys : CallLegacyGet(k)
    \/ \E k \in LegacyKeys, v \in Values, io \in IoOutcomes : CallLegacySet(k, v, io)
    \/ \E vals \in [LegacyKeys -> Values] :
          \/ SaveAllSettings(vals, 0, "ok")
          \/ \E n \in 1..Len(SaveOrder), io \in IoOutcomes \ {"ok"} : SaveAllSettings(vals, n, io)

SpecLegacy == LegacyInit /\ [][LegacyNext]_vars

----------------------------------------------------------------------------
(* src/models/models.py: pricing and the model registry *)

\* Money is exact.  A price is a whole number of 1e-9 dollars per 1000 tokens
\* (0.002212 is 2212000); a cost is a whole number of 1e-12 dollars, so that
\* (tokens / 1000) * price is tokens * price.  Python computes these in binary
\* floating point, whose rounding is not modelled.

\* the largest token count of a call
MaxTokens == 4

\* the largest base cost projected
MaxBaseCost == 5

PyNoneValue == [kind |-> "None"]

ModelPricing(input_price, output_price) ==
    [kind |-> "ModelPricing", input_price |-> input_price, output_price |-> output_price]

\* calculate_cost with the output tokens charged at the input price
calculate_cost_one_price(pricing, input_tokens, output_tokens) ==
    LET input_cost == input_tokens * pricing.input_price
        output_cost == output_tokens * pricing.input_price
    IN  input_cost + output_cost

\* ModelPricing.calculate_cost
calculate_cost(pricing, input_tokens, output_tokens) ==
    LET input_cost == input_tokens * pricing.input_price
        output_cost == output_tokens * pricing.output_price
    IN  input_cost + output_cost

\* get_projected_costs with the last scale repeated
get_projected_costs_repeat(pricing, base_cost) ==
    ("10x" :> base_cost * 10) @@ ("100x" :> base_cost * 100) @@ ("1000x" :> base_cost * 100)

\* ModelPricing.get_projected_costs
get_projected_costs(pricing, base_cost) ==
    ("10x" :> base_cost * 10) @@ ("100x" :> base_cost * 100) @@ ("1000x" :> base_cost * 1000)

\* the display names of models_data, in the order of the table
ModelNames ==
    << "DeepSeek-R1", "DeepSeek-V3-0324", "gpt-4.1", "gpt-4.1-nano", "GPT-4o",
       "GPT-4o-mini", "Llama-4-Scout-17B-16E-Instruct", "mistral-medium-2505",
       "O1", "O3", "o4-mini", "Phi-4", "Phi-4-mini-reasoning" >>

ModelData(api_name, input_price, output_price, description) ==
    [api_name |-> api_name, pricing |-> ModelPricing(input_price, output_price),
     description |-> description]

\* models_data of _initialize_models
models_data ==
    ("DeepSeek-R1" :> ModelData("deepseek-r1", 1200000, 4780000, "DeepSeek R1 reasoning model")) @@
    ("DeepSeek-V3-0324" :> ModelData("DeepSeek-V3-0324", 1010000, 4040000, "DeepSeek V3 model")) @@
    ("gpt-4.1" :> ModelData("gpt-4.1", 1770000, 7080000, "GPT-4.1 model")) @@
    ("gpt-4.1-nano" :> ModelData("gpt-4.1-nano", 90000, 360000, "GPT-4.1 Nano model")) @@
    ("GPT-4o" :> ModelData("gpt-4o", 2212000, 8848000, "GPT-4o model")) @@
    ("GPT-4o-mini" :> ModelData("gpt-4o-mini", 132720, 530900, "GPT-4o Mini model")) @@
    ("Llama-4-Scout-17B-16E-Instruct" :>
        ModelData("Llama-4-Scout-17B-16E-Instruct", 1000000, 3000000, "Llama 4 Scout model")) @@
    ("mistral-medium-2505" :> ModelData("mistral-medium-2505", 2000000, 6000000, "Mistral Medium model")) @@
    ("O1" :> ModelData("o1", 13272000, 53087950, "OpenAI O1 model")) @@
    ("O3" :> ModelData("o3", 8850000, 35400000, "OpenAI O3 model")) @@
    ("o4-mini" :> ModelData("o4-mini", 980000, 3900000, "OpenAI o4 Mini model")) @@
    ("Phi-4" :> ModelData("phi-4", 111000, 450000, "Microsoft Phi-4 model")) @@
    ("Phi-4-mini-reasoning" :>
        ModelData("Phi-4-mini-reasoning", 67000, 270000, "Microsoft Phi-4 Mini Reasoning model"))

ModelInfo(display_name, api_name, pricing, description) ==
    [kind |-> "ModelInfo", display_name |-> display_name, api_name |-> api_name,
     pricing |-> pricing, description |-> description]

\* ModelRegistry._models after __init__: the loop of _initialize_models
Registry ==
    [display_name \in DOMAIN models_data |->
        ModelInfo(display_name, models_data[display_name].api_name,
                  models_data[display_name].pricing, models_data[display_name].description)]

\* ModelRegistry.get_model
get_model(display_name) ==
    IF display_name \in DOMAIN Registry THEN Registry[display_name] ELSE PyNoneValue

\* a get_api_name that answers with the display name
get_api_name_display(display_name) ==
    LET model == get_model(display_name) IN
    IF model # PyNoneValue THEN model.display_name ELSE PyNone

\* ModelRegistry.get_api_name
get_api_name(display_name) ==
    LET model == get_model(display_name) IN
    IF model # PyNoneValue THEN model.api_name ELSE PyNone

\* ModelRegistry.get_pricing
get_pricing(display_name) ==
    LET model == get_model(display_name) IN
    IF model # PyNoneValue THEN model.pricing ELSE PyNoneValue

\* ModelRegistry.get_all_models
get_all_models == ModelNames

\* names a caller may ask for that the registry does not hold: among them
\* an API identifier and a display name in the wrong case
UnknownNames == {"NonExistentModel", "gpt-4o", "phi-4", ""}

LookupNames == DOMAIN models_data \cup UnknownNames

Pricings == {Registry[n].pricing : n \in DOMAIN Registry}

ModelsRet(op, name, model, api_name, pricing, input_tokens, output_tokens, cost, projected) ==
    [op |-> op, name |-> name, model |-> model, api_name |-> api_name, pricing |-> pricing,
     input_tokens |-> input_tokens, output_tokens |-> output_tokens, cost |-> cost,
     projected |-> projected]

ModelsInit ==
    /\ file = FileOf("absent")
    /\ mgr = [i \in {Self} |-> NewManager]
    /\ ret = ModelsRet("init", "-", PyNoneValue, "-", PyNoneValue, 0, 0, 0, <<>>)
    /\ pinned = [i \in {Self} |-> EmptyDict]
    /\ writer = "none"
    /\ sent = <<>>
    /\ pc = [i \in {Self} |-> Idle]
    /\ session = NewSession

\* a caller looks a name up with get_model, get_api_name and get_pricing
Lookup(name) ==
    /\ ret' = ModelsRet("lookup", name, get_model(name), get_api_name(name),
                        get_pricing(name), 0, 0, 0, <<>>)
    /\ UNCHANGED <<file, mgr, pinned, writer, sent, pc, session>>

\* pricing.calculate_cost(input_tokens, output_tokens)
CalculateCost(pricing, input_tokens, output_tokens) ==
    /\ ret' = ModelsRet("calculate_cost", "-", PyNoneValue, "-", pricing, input_tokens,
                        output_tokens, calculate_cost(pricing, input_tokens, output_tokens), <<>>)
    /\ UNCHANGED <<file, mgr, pinned, writer, sent, pc, session>>

\* pricing.get_projected_costs(base_cost)
GetProjectedCosts(pricing, base_cost) ==
    /\ ret' = ModelsRet("get_projected_costs", "-", PyNoneValue, "-", pricing, 0, 0, base_cost,
                        get_projected_costs(pricing, base_cost))
    /\ UNCHANGED <<file, mgr, pinned, writer, sent, pc, session>>

ModelsNext ==
    \/ \E name \in LookupNames : Lookup(name)
    \/ \E p \in Pricings, i \in 0..MaxTokens, o \in 0..MaxTokens : CalculateCost(p, i, o)
    \/ \E p \in Pricings, b \in 0..MaxBaseCost : GetProjectedCosts(p, b)

SpecModels == ModelsInit /\ [][ModelsNext]_vars

----------------------------------------------------------------------------
(* src/services/azure_ai_service.py: the completion client *)

\* the most requests a run of the model sends to the remote endpoint
MaxRequests == 2

\* A string is a sequence of characters; None is PyNoneValue.
Str(chars) == [kind |-> "str", chars |-> chars]

IsSpace(c) == c \in {" ", "\t", "\n", "\r"}

RECURSIVE lstrip(_)
lstrip(chars) ==
    IF chars # <<>> /\ IsSpace(Head(chars)) THEN lstrip(Tail(chars)) ELSE chars

RECURSIVE rstrip(_)
rstrip(chars) ==
    IF chars # <<>> /\ IsSpace(chars[Len(chars)])
    THEN rstrip(SubSeq(chars, 1, Len(chars) - 1))
    ELSE chars

\* str.strip()
strip(chars) == rstrip(lstrip(chars))

\* the truth value Python gives an optional string
Truthy(s) == s # PyNoneValue /\ s.chars # <<>>

\* _create_messages
create_messages(system_prompt, user_prompt) ==
    (IF Truthy(system_prompt) /\ strip(system_prompt.chars) # <<>>
     THEN << [role |-> "system", content |-> system_prompt] >>
     ELSE << >>)
    \o << [role |-> "user", content |-> user_prompt] >>

TokenUsage(prompt_tokens, completion_tokens, total_tokens) ==
    [prompt_tokens |-> prompt_tokens, completion_tokens |-> completion_tokens,
     total_tokens |-> total_tokens]

\* _calculate_cost: the cost, or None for a model without pricing
service_calculate_cost(model_name, usage) ==
    LET pricing == get_pricing(model_name) IN
    IF pricing # PyNoneValue
    THEN [kind |-> "float",
          value |-> calculate_cost(pricing, usage.prompt_tokens, usage.completion_tokens)]
    ELSE PyNoneValue

\* what the remote endpoint does with a request: it replies, or the call raises
RemoteFailure == [kind |-> "error", exc |-> "HttpResponseError"]

RemoteReply(content, usage) == [kind |-> "reply", content |-> content, usage |-> usage]

Raised(exc, about) == [kind |-> "raised", exc |-> exc, about |-> about]

Request(messages, model, temperature, max_tokens) ==
    [messages |-> messages, model |-> model, temperature |-> temperature,
     max_tokens |-> max_tokens]

\* a generate_response that asks the registry only after the remote call
GenerateResponse_SendFirst(log, model_name, system_prompt, user_prompt, temperature, max_tokens, remote) ==
    LET api_name == get_api_name(model_name)
        messages == create_messages(system_prompt, user_prompt)
        request == Request(messages, api_name, temperature, max_tokens)
    IN  IF api_name = PyNone \/ api_name = ""
        THEN [result |-> Raised("ValueError", <<"Unknown model: ", model_name>>),
              sent |-> Append(log, request)]
        ELSE IF remote.kind = "error"
             THEN [result |-> Raised(remote.exc, <<"remote", model_name>>),
                   sent |-> Append(log, request)]
             ELSE [result |->
                      [kind |-> "ModelResponse", content |-> remote.content,
                       usage |-> TokenUsage(remote.usage.prompt_tokens,
                                            remote.usage.completion_tokens,
                                            remote.usage.total_tokens),
                       model_name |-> model_name,
                       cost |-> service_calculate_cost(model_name, remote.usage)],
                   sent |-> Append(log, request)]

\* a generate_response that sends its request a second time when the remote
\* call has failed
GenerateResponse_Retry(log, model_name, system_prompt, user_prompt, temperature, max_tokens, remote) ==
    LET api_name == get_api_name(model_name)
        messages == create_messages(system_prompt, user_prompt)
        request == Request(messages, api_name, temperature, max_tokens)
    IN  IF api_name = PyNone \/ api_name = ""
        THEN [result |-> Raised("ValueError", <<"Unknown model: ", model_name>>), sent |-> log]
        ELSE IF remote.kind = "error"
             THEN [result |-> Raised(remote.exc, <<"remote", model_name>>),
                   sent |-> Append(Append(log, request), request)]
             ELSE [result |->
                      [kind |-> "ModelResponse", content |-> remote.content,
                       usage |-> TokenUsage(remote.usage.prompt_tokens,
                                            remote.usage.completion_tokens,
                                            remote.usage.total_tokens),
                       model_name |-> model_name,
                       cost |-> service_calculate_cost(model_name, remote.usage)],
                   sent |-> Append(log, request)]

\* a generate_response that names its response after the API identifier
GenerateResponse_ApiName(log, model_name, system_prompt, user_prompt, temperature, max_tokens, remote) ==
    LET api_name == get_api_name(model_name) IN
    IF api_name = PyNone \/ api_name = ""
    THEN [result |-> Raised("ValueError", <<"Unknown model: ", model_name>>), sent |-> log]
    ELSE LET messages == create_messages(system_prompt, user_prompt)
             request == Request(messages, api_name, temperature, max_tokens)
         IN  IF remote.kind = "error"
             THEN [result |-> Raised(remote.exc, <<"remote", model_name>>),
                   sent |-> Append(log, request)]
             ELSE [result |->
                      [kind |-> "ModelResponse", content |-> remote.content,
                       usage |-> TokenUsage(remote.usage.prompt_tokens,
                                            remote.usage.completion_tokens,
                                            remote.usage.total_tokens),
                       model_name |-> api_name,
                       cost |-> service_calculate_cost(api_name, remote.usage)],
                   sent |-> Append(log, request)]

\* generate_response: what it returns or raises, and the requests sent so far.
\* Its except clause logs the exception and raises it again unchanged.
GenerateResponse(log, model_name, system_prompt, user_prompt, temperature, max_tokens, remote) ==
    LET api_name == get_api_name(model_name) IN
    IF api_name = PyNone \/ api_name = ""
    THEN [result |-> Raised("ValueError", <<"Unknown model: ", model_name>>), sent |-> log]
    ELSE LET messages == create_messages(system_prompt, user_prompt)
             request == Request(messages, api_name, temperature, max_tokens)
         IN  IF remote.kind = "error"
             THEN [result |-> Raised(remote.exc, <<"remote", model_name>>),
                   sent |-> Append(log, request)]
             ELSE [result |->
                      [kind |-> "ModelResponse", content |-> remote.content,
                       usage |-> TokenUsage(remote.usage.prompt_tokens,
                                            remote.usage.completion_tokens,
                                            remote.usage.total_tokens),
                       model_name |-> model_name,
                       cost |-> service_calculate_cost(model_name, remote.usage)],
                   sent |-> Append(log, request)]

\* the inputs of the service model
ServiceModelNames == {"GPT-4o", "Phi-4", "NonExistentModel", "gpt-4o", ""}

SystemPrompts == {PyNoneValue, Str(<<>>), Str(<<" ">>), Str(<<"s">>)}

UserPrompts == {Str(<<"u">>)}

Temperatures == {7}

TokenLimits == {1000}

Remotes ==
    {RemoteFailure} \cup
    {RemoteReply(Str(<<"r">>), TokenUsage(p, c, t)) :
        p \in {0, MaxTokens}, c \in {0, MaxTokens}, t \in {0, 2 * MaxTokens}}

ServiceRet(op, model_name, result, remote) ==
    [op |-> op, model_name |-> model_name, result |-> result, remote |-> remote]

ServiceInit ==
    /\ file = FileOf("absent")
    /\ mgr = [i \in {Self} |-> NewManager]
    /\ ret = ServiceRet("init", "-", PyNoneValue, RemoteFailure)
    /\ pinned = [i \in {Self} |-> EmptyDict]
    /\ writer = "none"
    /\ sent = <<>>
    /\ pc = [i \in {Self} |-> Idle]
    /\ session = NewSession

\* a call of azure_ai_service.generate_response
CallGenerateResponse(model_name, system_prompt, user_prompt, temperature, max_tokens, remote) ==
    LET r == GenerateResponse(sent, model_name, system_prompt, user_prompt, temperature,
                              max_tokens, remote) IN
    /\ Len(r.sent) <= MaxRequests
    /\ sent' = r.sent
    /\ ret' = ServiceRet("generate_response", model_name, r.result, remote)
    /\ UNCHANGED <<file, mgr, pinned, writer, pc, session>>

\* the longest model list of a comparison
MaxModels == 2

\* A Python dict whose order matters is the sequence of its <<key, value>>
\* items, in insertion order.
ItemKeys(items) == {items[n][1] : n \in 1..Len(items)}

ItemValue(items, key) == items[CHOOSE n \in 1..Len(items) : items[n][1] = key][2]

\* d[key] = value: a new key goes last, a key already held keeps its place
ItemSet(items, key, value) ==
    IF key \in ItemKeys(items)
    THEN [n \in 1..Len(items) |-> IF items[n][1] = key THEN <<key, value>> ELSE items[n]]
    ELSE Append(items, <<key, value>>)

\* str(e) of the exception a call raised
ErrorText(raised) == raised.about

\* F(v) with v evaluated once, as Python evaluates the right-hand side of an
\* assignment once before the statements that read the variable
ByValue(F(_), v) == CHOOSE out \in {F(x) : x \in {v}} : TRUE

\* a for loop that is left at the first model that fails
CompareLoop_StopAtFailure(log, model_names, system_prompt, user_prompt, temperature, max_tokens, remotes) ==
    LET loop[n \in 0..Len(model_names)] ==
            IF n = 0
            THEN [responses |-> <<>>, errors |-> <<>>, sent |-> log]
            ELSE LET Body(acc) ==
                         LET Catch(r) ==
                                 IF r.result.kind = "raised"
                                 THEN [responses |-> acc.responses,
                                       errors |-> ItemSet(acc.errors, model_names[n],
                                                          ErrorText(r.result)),
                                       sent |-> r.sent]
                                 ELSE [responses |-> ItemSet(acc.responses, model_names[n],
                                                             r.result),
                                       errors |-> acc.errors,
                                       sent |-> r.sent]
                         IN  IF acc.errors # <<>>
                             THEN acc
                             ELSE ByValue(Catch, GenerateResponse(acc.sent, model_names[n],
                                                                  system_prompt, user_prompt,
                                                                  temperature, max_tokens,
                                                                  remotes[n]))
                 IN  ByValue(Body, loop[n - 1])
    IN  loop[Len(model_names)]

\* the for loop of generate_comparison_responses: loop[n] is what responses,
\* errors and the requests sent are after the n-th model
CompareLoop(log, model_names, system_prompt, user_prompt, temperature, max_tokens, remotes) ==
    LET loop[n \in 0..Len(model_names)] ==
            IF n = 0
            THEN [responses |-> <<>>, errors |-> <<>>, sent |-> log]
            ELSE LET Body(acc) ==
                         LET Catch(r) ==
                                 IF r.result.kind = "raised"
                                 THEN [responses |-> acc.responses,
                                       errors |-> ItemSet(acc.errors, model_names[n],
                                                          ErrorText(r.result)),
                                       sent |-> r.sent]
                                 ELSE [responses |-> ItemSet(acc.responses, model_names[n],
                                                             r.result),
                                       errors |-> acc.errors,
                                       sent |-> r.sent]
                         IN  ByValue(Catch, GenerateResponse(acc.sent, model_names[n],
                                                             system_prompt, user_prompt,
                                                             temperature, max_tokens,
                                                             remotes[n]))
                 IN  ByValue(Body, loop[n - 1])
    IN  loop[Len(model_names)]

\* a comparison that gives up at the first model that fails
GenerateComparison_FailFast(log, model_names, system_prompt, user_prompt, temperature, max_tokens, remotes) ==
    LET Outcome(c) ==
            LET Raise(first) ==
                    IF model_names # <<>> /\ first.result.kind = "raised"
                    THEN [result |-> Raised("RuntimeError",
                                            <<"All models failed to generate responses: ",
                                              << <<model_names[1], ErrorText(first.result)>> >> >>),
                          sent |-> first.sent,
                          errors |-> << <<model_names[1], ErrorText(first.result)>> >>,
                          warned |-> FALSE]
                    ELSE [result |-> [kind |-> "dict", items |-> c.responses], sent |-> c.sent,
                          errors |-> c.errors, warned |-> c.errors # <<>>]
            IN  IF model_names = <<>>
                THEN [result |-> [kind |-> "dict", items |-> c.responses], sent |-> c.sent,
                      errors |-> c.errors, warned |-> FALSE]
                ELSE ByValue(Raise, GenerateResponse(log, model_names[1], system_prompt,
                                                     user_prompt, temperature, max_tokens,
                                                     remotes[1]))
    IN  ByValue(Outcome, CompareLoop(log, model_names, system_prompt, user_prompt, temperature,
                                     max_tokens, remotes))

\* a comparison that raises as soon as any model has failed
GenerateComparison_Strict(log, model_names, system_prompt, user_prompt, temperature, max_tokens, remotes) ==
    LET Outcome(c) ==
            IF c.errors # <<>>
            THEN [result |-> Raised("RuntimeError",
                                    <<"All models failed to generate responses: ", c.errors>>),
                  sent |-> c.sent, errors |-> c.errors, warned |-> FALSE]
            ELSE [result |-> [kind |-> "dict", items |-> c.responses], sent |-> c.sent,
                  errors |-> c.errors, warned |-> FALSE]
    IN  ByValue(Outcome, CompareLoop(log, model_names, system_prompt, user_prompt, temperature,
                                     max_tokens, remotes))

\* a comparison that raises whenever it has no response to return
GenerateComparison_RaiseWhenEmpty(log, model_names, system_prompt, user_prompt, temperature, max_tokens, remotes) ==
    LET Outcome(c) ==
            IF c.responses = <<>>
            THEN [result |-> Raised("RuntimeError",
                                    <<"All models failed to generate responses: ", c.errors>>),
                  sent |-> c.sent, errors |-> c.errors, warned |-> FALSE]
            ELSE [result |-> [kind |-> "dict", items |-> c.responses], sent |-> c.sent,
                  errors |-> c.errors, warned |-> c.errors # <<>>]
    IN  ByValue(Outcome, CompareLoop(log, model_names, system_prompt, user_prompt, temperature,
                                     max_tokens, remotes))

\* generate_comparison_responses: what it returns or raises, the requests sent
\* so far, the errors dict it built and whether it logged the partial-failure
\* warning.  remotes[n] is what the remote endpoint does with the n-th request.
GenerateComparisonResponses(log, model_names, system_prompt, user_prompt, temperature, max_tokens, remotes) ==
    LET Outcome(c) ==
            IF c.errors # <<>> /\ c.responses = <<>>
            THEN [result |-> Raised("RuntimeError",
                                    <<"All models failed to generate responses: ", c.errors>>),
                  sent |-> c.sent, errors |-> c.errors, warned |-> FALSE]
            ELSE [result |-> [kind |-> "dict", items |-> c.responses], sent |-> c.sent,
                  errors |-> c.errors, warned |-> c.errors # <<>>]
    IN  ByValue(Outcome, CompareLoop(log, model_names, system_prompt, user_prompt, temperature,
                                     max_tokens, remotes))

\* the model lists of a comparison: distinct display names, as the multiselect
\* of the admin page stores them
ComparisonModels == {"GPT-4o", "Phi-4", "NonExistentModel"}

ModelLists ==
    {ms \in UNION {[1..k -> ComparisonModels] : k \in 0..MaxModels} :
        \A i, j \in 1..Len(ms) : i # j => ms[i] # ms[j]}

\* the replies and the failure drawn for the requests of a comparison
ComparisonRemotes ==
    {RemoteFailure, RemoteReply(Str(<<"r">>), TokenUsage(MaxTokens, MaxTokens, 2 * MaxTokens))}

ComparisonRet(model_names, remotes, r) ==
    [op |-> "generate_comparison_responses", model_name |-> "-", result |-> r.result,
     model_names |-> model_names, remotes |-> remotes, errors |-> r.errors,
     warned |-> r.warned, requests |-> Len(r.sent) - Len(sent)]

\* a call of azure_ai_service.generate_comparison_responses
CallGenerateComparisonResponses(model_names, system_prompt, user_prompt, temperature, max_tokens, remotes) ==
    \E r \in {GenerateComparisonResponses(sent, model_names, system_prompt, user_prompt,
                                          temperature, max_tokens, remotes)} :
    /\ Len(r.sent) <= MaxRequests
    /\ sent' = r.sent
    /\ ret' = ComparisonRet(model_names, remotes, r)
    /\ UNCHANGED <<file, mgr, pinned, writer, pc, session>>

ServiceNext ==
    \/ \E m \in ServiceModelNames, sp \in SystemPrompts, up \in UserPrompts,
          t \in Temperatures, mt \in TokenLimits, remote \in Remotes :
           CallGenerateResponse(m, sp, up, t, mt, remote)
    \/ \E ms \in ModelLists, sp \in SystemPrompts, up \in UserPrompts,
          t \in Temperatures, mt \in TokenLimits :
           \E remotes \in [1..Len(ms) -> ComparisonRemotes] :
               CallGenerateComparisonResponses(ms, sp, up, t, mt, remotes)

SpecService == ServiceInit /\ [][ServiceNext]_vars

----------------------------------------------------------------------------
(* src/views/main_view.py and src/views/chain_view.py: one browser session *)

\* the configuration of one chain stage, read from its widgets
StageConfig(model, temperature, system_prompt) ==
    [model |-> model, temperature |-> temperature, system_prompt |-> system_prompt]

\* what a button press shows and does besides changing st.session_state:
\* the st.error text if any, and whether it ends in st.rerun()
Shown(ss, log, error, rerun) == [session |-> ss, sent |-> log, error |-> error, rerun |-> rerun]

NoError == <<>>

\* a Start button that is disabled for the empty prompt only
start_disabled_NoStrip(user_prompt) == user_prompt.chars = <<>>

\* disabled= of the Start/Restart button
start_disabled(user_prompt) == strip(user_prompt.chars) = <<>>

\* stage2_disabled / stage3_disabled: the pointer has not reached the stage, or
\* the stage before it has no response
stage_ready(chain_state, stage_num) ==
    chain_state.stage >= stage_num /\ chain_state.responses[stage_num - 1] # Absent

\* stage2_completed / stage3_completed
stage_completed(chain_state, stage_num) == chain_state.responses[stage_num] # Absent

\* a Continue button that is disabled for a completed stage only
continue_disabled_Completed(chain_state, stage_num) == stage_completed(chain_state, stage_num)

\* disabled= of the Continue button of stage 2 or 3
continue_disabled(chain_state, stage_num) ==
    ~stage_ready(chain_state, stage_num) \/ stage_completed(chain_state, stage_num)

\* a _start_chain that records the seed prompt before it calls the service
start_chain_RecordSeed(ss, log, user_prompt, stage_config, max_tokens, remote) ==
    LET Try(r) ==
            IF r.result.kind = "raised"
            THEN Shown([ss EXCEPT !.chain_state.user_prompt = user_prompt],
                       r.sent, <<"Error in Stage 1: ", ErrorText(r.result)>>, FALSE)
            ELSE Shown([ss EXCEPT !.chain_state =
                           [stage |-> 2,
                            responses |-> [@.responses EXCEPT ![1] = r.result],
                            user_prompt |-> user_prompt]],
                       r.sent, NoError, TRUE)
    IN  ByValue(Try, GenerateResponse(log, stage_config.model, stage_config.system_prompt,
                                      user_prompt, stage_config.temperature, max_tokens,
                                      remote))

\* _start_chain
start_chain(ss, log, user_prompt, stage_config, max_tokens, remote) ==
    LET Try(r) ==
            IF r.result.kind = "raised"
            THEN Shown(ss, r.sent, <<"Error in Stage 1: ", ErrorText(r.result)>>, FALSE)
            ELSE Shown([ss EXCEPT !.chain_state =
                           [stage |-> 2,
                            responses |-> [@.responses EXCEPT ![1] = r.result],
                            user_prompt |-> user_prompt]],
                       r.sent, NoError, TRUE)
    IN  ByValue(Try, GenerateResponse(log, stage_config.model, stage_config.system_prompt,
                                      user_prompt, stage_config.temperature, max_tokens,
                                      remote))

\* a stage 3 input with the previous output ahead of the original prompt
WithOriginal_OutputFirst(original_prompt, content) ==
    Str(<<"Previous Stage Output:\n">> \o content.chars
        \o <<"\n\n---\n\nOriginal Request:\n">> \o original_prompt.chars)

\* the input of stage 3 when 'include original prompt' is checked
WithOriginal(original_prompt, content) ==
    Str(<<"Original Request:\n">> \o original_prompt.chars
        \o <<"\n\n---\n\nPrevious Stage Output:\n">> \o content.chars)

\* a _continue_chain that moves the pointer on when the call has failed
continue_chain_AdvanceOnError(ss, log, stage_num, stage_config, max_tokens, include_original, remote) ==
    LET prev_response == ss.chain_state.responses[stage_num - 1]
        input_prompt ==
            IF stage_num = 3 /\ include_original
            THEN WithOriginal(ss.chain_state.user_prompt, prev_response.content)
            ELSE prev_response.content
        Try(r) ==
            IF r.result.kind = "raised"
            THEN Shown([ss EXCEPT !.chain_state.stage =
                                      IF stage_num < 3 THEN stage_num + 1 ELSE 3],
                       r.sent, <<"Error in Stage ", stage_num, ErrorText(r.result)>>, FALSE)
            ELSE Shown([ss EXCEPT !.chain_state.responses[stage_num] = r.result,
                                  !.chain_state.stage =
                                      IF stage_num < 3 THEN stage_num + 1 ELSE 3],
                       r.sent, NoError, TRUE)
    IN  IF prev_response = Absent
        THEN Shown(ss, log, <<"Error in Stage ", stage_num, "KeyError", stage_num - 1>>, FALSE)
        ELSE ByValue(Try, GenerateResponse(log, stage_config.model, stage_config.system_prompt,
                                           input_prompt, stage_config.temperature, max_tokens,
                                           remote))

\* a _continue_chain that moves the pointer past the last stage
continue_chain_NoCap(ss, log, stage_num, stage_config, max_tokens, include_original, remote) ==
    LET prev_response == ss.chain_state.responses[stage_num - 1]
        input_prompt ==
            IF stage_num = 3 /\ include_original
            THEN WithOriginal(ss.chain_state.user_prompt, prev_response.content)
            ELSE prev_response.content
        Try(r) ==
            IF r.result.kind = "raised"
            THEN Shown(ss, r.sent, <<"Error in Stage ", stage_num, ErrorText(r.result)>>, FALSE)
            ELSE Shown([ss EXCEPT !.chain_state.responses[stage_num] = r.result,
                                  !.chain_state.stage = stage_num + 1],
                       r.sent, NoError, TRUE)
    IN  IF prev_response = Absent
        THEN Shown(ss, log, <<"Error in Stage ", stage_num, "KeyError", stage_num - 1>>, FALSE)
        ELSE ByValue(Try, GenerateResponse(log, stage_config.model, stage_config.system_prompt,
                                           input_prompt, stage_config.temperature, max_tokens,
                                           remote))

\* _continue_chain; stage_num - 1 is looked up in responses first, and the
\* KeyError of a missing stage is caught like every other exception
continue_chain(ss, log, stage_num, stage_config, max_tokens, include_original, remote) ==
    LET prev_response == ss.chain_state.responses[stage_num - 1]
        input_prompt ==
            IF stage_num = 3 /\ include_original
            THEN WithOriginal(ss.chain_state.user_prompt, prev_response.content)
            ELSE prev_response.content
        Try(r) ==
            IF r.result.kind = "raised"
            THEN Shown(ss, r.sent, <<"Error in Stage ", stage_num, ErrorText(r.result)>>, FALSE)
            ELSE Shown([ss EXCEPT !.chain_state.responses[stage_num] = r.result,
                                  !.chain_state.stage =
                                      IF stage_num < 3 THEN stage_num + 1 ELSE 3],
                       r.sent, NoError, TRUE)
    IN  IF prev_response = Absent
        THEN Shown(ss, log, <<"Error in Stage ", stage_num, "KeyError", stage_num - 1>>, FALSE)
        ELSE ByValue(Try, GenerateResponse(log, stage_config.model, stage_config.system_prompt,
                                           input_prompt, stage_config.temperature, max_tokens,
                                           remote))

\* the status _render_stage_status_and_response shows for a stage
stage_status(chain_state, stage_num) ==
    IF chain_state.responses[stage_num] # Absent
    THEN "Completed"
    ELSE IF /\ stage_num = chain_state.stage
            /\ (stage_num = 1 \/ chain_state.responses[stage_num - 1] # Absent)
    THEN "Ready to run"
    ELSE IF stage_num < chain_state.stage
    THEN "Skipped"
    ELSE "Waiting"

\* len(responses) == 3: the 'Chain completed' message is shown
chain_completed(chain_state) ==
    Cardinality({n \in 1..3 : chain_state.responses[n] # Absent}) = 3

\* a Reset that moves the pointer back and keeps the stored responses
reset_chain_KeepResponses(ss, log) ==
    Shown([ss EXCEPT !.chain_state.stage = 1, !.chain_state.user_prompt = Str(<<>>)],
          log, NoError, TRUE)

\* the Reset Chain button
reset_chain(ss, log) == Shown([ss EXCEPT !.chain_state = NewChainState], log, NoError, TRUE)

\* a Generate Response that refuses the empty prompt only
generate_NoStrip(ss, log, comparison_mode, visible_models, selected_model, system_prompt, user_prompt, temperature, max_tokens_input, remotes) ==
    LET Compared(r) ==
            IF r.result.kind = "raised"
            THEN Shown(ss, r.sent, ErrorText(r.result), FALSE)
            ELSE Shown([ss EXCEPT !.responses = r.result], r.sent, NoError, FALSE)
        Single(r) ==
            IF r.result.kind = "raised"
            THEN Shown(ss, r.sent, ErrorText(r.result), FALSE)
            ELSE Shown([ss EXCEPT !.last_response = r.result], r.sent, NoError, FALSE)
    IN  IF user_prompt.chars = <<>>
        THEN Shown(ss, log, <<"Please enter a user prompt.">>, FALSE)
        ELSE IF comparison_mode
        THEN ByValue(Compared,
                     GenerateComparisonResponses(log, visible_models, system_prompt, user_prompt,
                                                 temperature, max_tokens_input, remotes))
        ELSE ByValue(Single,
                     GenerateResponse(log, selected_model, system_prompt, user_prompt,
                                      temperature, max_tokens_input, remotes[1]))

\* a Generate Response that compares the selected model only
generate_SelectedOnly(ss, log, comparison_mode, visible_models, selected_model, system_prompt, user_prompt, temperature, max_tokens_input, remotes) ==
    LET Compared(r) ==
            IF r.result.kind = "raised"
            THEN Shown(ss, r.sent, ErrorText(r.result), FALSE)
            ELSE Shown([ss EXCEPT !.responses = r.result], r.sent, NoError, FALSE)
        Single(r) ==
            IF r.result.kind = "raised"
            THEN Shown(ss, r.sent, ErrorText(r.result), FALSE)
            ELSE Shown([ss EXCEPT !.last_response = r.result], r.sent, NoError, FALSE)
    IN  IF strip(user_prompt.chars) = <<>>
        THEN Shown(ss, log, <<"Please enter a user prompt.">>, FALSE)
        ELSE IF comparison_mode
        THEN ByValue(Compared,
                     GenerateComparisonResponses(log, <<selected_model>>, system_prompt, user_prompt,
                                                 temperature, max_tokens_input, remotes))
        ELSE ByValue(Single,
                     GenerateResponse(log, selected_model, system_prompt, user_prompt,
                                      temperature, max_tokens_input, remotes[1]))

\* the Generate Response button of show_main_view
generate(ss, log, comparison_mode, visible_models, selected_model, system_prompt, user_prompt, temperature, max_tokens_input, remotes) ==
    LET Compared(r) ==
            IF r.result.kind = "raised"
            THEN Shown(ss, r.sent, ErrorText(r.result), FALSE)
            ELSE Shown([ss EXCEPT !.responses = r.result], r.sent, NoError, FALSE)
        Single(r) ==
            IF r.result.kind = "raised"
            THEN Shown(ss, r.sent, ErrorText(r.result), FALSE)
            ELSE Shown([ss EXCEPT !.last_response = r.result], r.sent, NoError, FALSE)
    IN  IF strip(user_prompt.chars) = <<>>
        THEN Shown(ss, log, <<"Please enter a user prompt.">>, FALSE)
        ELSE IF comparison_mode
        THEN ByValue(Compared,
                     GenerateComparisonResponses(log, visible_models, system_prompt, user_prompt,
                                                 temperature, max_tokens_input, remotes))
        ELSE ByValue(Single,
                     GenerateResponse(log, selected_model, system_prompt, user_prompt,
                                      temperature, max_tokens_input, remotes[1]))

\* the inputs of the session model
PromptTexts == {Str(<<>>), Str(<<" ">>), Str(<<"a">>), Str(<<"b", " ">>)}

SessionModels == {"GPT-4o", "NonExistentModel"}

StageConfigs ==
    {StageConfig(m, 7, Str(<<"s">>)) : m \in SessionModels}
        \cup {StageConfig("GPT-4o", 3, Str(<<>>))}

\* the values of the visible_models setting
VisibleLists == {<<"GPT-4o", "NonExistentModel">>, <<"GPT-4o", "Phi-4">>}

\* what the remote endpoint does with the requests of a press in the chain view
SessionRemotes ==
    {RemoteFailure} \cup
    {RemoteReply(Str(<<c>>), TokenUsage(MaxTokens, MaxTokens, 2 * MaxTokens)) : c \in {"r", "q"}}

\* and with those of a press in the main view
MainRemotes ==
    {RemoteFailure, RemoteReply(Str(<<"r">>), TokenUsage(MaxTokens, MaxTokens, 2 * MaxTokens))}

\* the last button press: which, with what inputs, what the remote endpoint
\* did with its requests, what it showed, and how many requests it sent
SessionRet(op, stage_num, user_prompt, config, visible_models, include_original, remote, shown) ==
    [op |-> op, stage_num |-> stage_num, user_prompt |-> user_prompt,
     model |-> config.model, config |-> config, visible_models |-> visible_models,
     include_original |-> include_original, remote |-> remote,
     error |-> shown.error, rerun |-> shown.rerun,
     requests |-> Len(shown.sent)]

\* a fresh browser session; sent holds the requests of the script run that the
\* last button press started
SessionInit ==
    /\ file = FileOf("absent")
    /\ mgr = [i \in {Self} |-> NewManager]
    /\ pinned = [i \in {Self} |-> EmptyDict]
    /\ writer = "none"
    /\ sent = <<>>
    /\ pc = [i \in {Self} |-> Idle]
    /\ session = NewSession
    /\ ret = SessionRet("init", 0, Str(<<>>), StageConfig("-", 0, Str(<<>>)), <<>>, FALSE,
                        RemoteFailure,
                        Shown(NewSession, <<>>, NoError, FALSE))

\* what the script run of a button press leaves
Press(op, stage_num, user_prompt, config, visible_models, include_original, remote, outcome) ==
    \E shown \in {outcome} :
        /\ session' = shown.session
        /\ sent' = shown.sent
        /\ ret' = SessionRet(op, stage_num, user_prompt, config, visible_models,
                             include_original, remote, shown)
        /\ UNCHANGED <<file, mgr, pinned, writer, pc>>

\* Generate Response is pressed in the main view; the remote endpoint treats
\* every request of the press alike
Generate(comparison_mode, visible_models, selected_model, user_prompt, remote) ==
    /\ selected_model \in ItemKeys([n \in 1..Len(visible_models) |-> <<visible_models[n], n>>])
    /\ Press(IF comparison_mode THEN "generate_comparison" ELSE "generate", 0, user_prompt,
             StageConfig(selected_model, 7, Str(<<"s">>)), visible_models, FALSE, remote,
             generate(session, <<>>, comparison_mode, visible_models, selected_model,
                      Str(<<"s">>), user_prompt, 7, 1000,
                      [n \in 1..Len(visible_models) |-> remote]))

\* Start Chain / Restart Chain is pressed; a disabled button cannot be
StartChain(user_prompt, stage_config, remote) ==
    /\ ~start_disabled(user_prompt)
    /\ Press("start", 1, user_prompt, stage_config, <<>>, FALSE, remote,
             start_chain(session, <<>>, user_prompt, stage_config, 1000, remote))

\* Continue to Stage 2 / 3 is pressed
ContinueChain(stage_num, stage_config, include_original, remote) ==
    /\ ~continue_disabled(session.chain_state, stage_num)
    /\ Press("continue", stage_num, Str(<<>>), stage_config, <<>>, include_original, remote,
             continue_chain(session, <<>>, stage_num, stage_config, 1000, include_original,
                            remote))

\* Reset Chain is pressed; the button has no disabled state
ResetChain ==
    /\ session.chain_state.stage \in 1..3
    /\ Press("reset", 0, Str(<<>>), StageConfig("-", 0, Str(<<>>)), <<>>, FALSE, RemoteFailure, reset_chain(session, <<>>))

\* _continue_chain is called while its button is disabled
DirectContinue(stage_num, stage_config, include_original, remote) ==
    /\ continue_disabled(session.chain_state, stage_num)
    /\ Press("direct_continue", stage_num, Str(<<>>), stage_config, <<>>, include_original,
             remote,
             continue_chain(session, <<>>, stage_num, stage_config, 1000, include_original,
                            remote))

SessionNext ==
    \/ \E cm \in BOOLEAN, vm \in VisibleLists, up \in PromptTexts, remote \in MainRemotes :
          \E sm \in SessionModels : Generate(cm, vm, sm, up, remote)
    \/ \E up \in PromptTexts, c \in StageConfigs, remote \in SessionRemotes :
          StartChain(up, c, remote)
    \/ \E n \in {2, 3}, c \in StageConfigs, io \in BOOLEAN, remote \in SessionRemotes :
          ContinueChain(n, c, io, remote)
    \/ ResetChain

SpecSession == SessionInit /\ [][SessionNext]_vars

\* the session, and calls of _continue_chain that bypass its button
DirectNext ==
    \/ SessionNext
    \/ \E n \in {2, 3}, c \in StageConfigs, io \in BOOLEAN, remote \in SessionRemotes :
          DirectContinue(n, c, io, remote)

SpecSessionDirect == SessionInit /\ [][DirectNext]_vars

----------------------------------------------------------------------------
(* pages/admin.py: the admin page of one browser session, over the settings *)
(* functions of config.py                                                   *)

\* ADMIN_PASSWORD when the environment does not set it
ADMIN_PASSWORD == "admin123"

\* the passwords typed into the login form
Passwords == {"admin123", "Admin123", "admin1234", ""}

\* st.session_state of the admin page once it has rendered
NewAdminSession == [is_admin |-> FALSE]

\* a Login that takes every password
admin_login_AnyPassword(ss, password, admin_password) ==
    [session |-> [ss EXCEPT !.is_admin = TRUE], error |-> NoError, rerun |-> TRUE]

\* the Login button: the flag is set when the password typed equals the
\* configured one, and 'Incorrect password' is shown otherwise
admin_login(ss, password, admin_password) ==
    IF password = admin_password
    THEN [session |-> [ss EXCEPT !.is_admin = TRUE], error |-> NoError, rerun |-> TRUE]
    ELSE [session |-> ss, error |-> <<"Incorrect password">>, rerun |-> FALSE]

\* the Logout button
admin_logout(ss) == [session |-> [ss EXCEPT !.is_admin = FALSE], error |-> NoError, rerun |-> TRUE]

\* the branch of the page that renders the login form
login_form_shown(ss) == ~ss.is_admin

\* the branch that renders the settings, Save All Settings and Logout
admin_controls_shown(ss) == ss.is_admin

AdminRet(op, password, exc, error) ==
    [op |-> op, password |-> password, exc |-> exc, error |-> error]

AdminInit ==
    /\ file \in {FileOf("absent")} \cup {[kind |-> "object", doc |-> d] : d \in LegacyDocs}
    /\ mgr = [i \in {Self} |-> NewManager]
    /\ ret = AdminRet("init", "", NoExc, NoError)
    /\ pinned = [i \in {Self} |-> EmptyDict]
    /\ writer = "none"
    /\ sent = <<>>
    /\ pc = [i \in {Self} |-> Idle]
    /\ session = NewAdminSession

\* Login is pressed with a password typed
AdminLogin(password) ==
    /\ login_form_shown(session)
    /\ \E r \in {admin_login(session, password, ADMIN_PASSWORD)} :
          /\ session' = r.session
          /\ ret' = AdminRet("login", password, NoExc, r.error)
    /\ UNCHANGED <<file, mgr, pinned, writer, sent, pc>>

\* Save All Settings is pressed: the four setters in turn, an exception of one
\* of them ending the script run
AdminSave(vals, failAt, io) ==
    /\ admin_controls_shown(session)
    /\ \E r \in {SaveFrom(file, 1, vals, failAt, io)} :
          /\ file' = r.file
          /\ ret' = AdminRet("save_all", "", r.exc, NoError)
    /\ UNCHANGED <<mgr, pinned, writer, sent, pc, session>>

\* Logout is pressed
AdminLogout ==
    /\ admin_controls_shown(session)
    /\ session' = admin_logout(session).session
    /\ ret' = AdminRet("logout", "", NoExc, NoError)
    /\ UNCHANGED <<file, mgr, pinned, writer, sent, pc>>

AdminNext ==
    \/ \E password \in Passwords : AdminLogin(password)
    \/ \E vals \in [LegacyKeys -> Values] :
          \/ AdminSave(vals, 0, "ok")
          \/ \E n \in 1..Len(SaveOrder), io \in IoOutcomes \ {"ok"} : AdminSave(vals, n, io)
    \/ AdminLogout

SpecAdmin == AdminInit /\ [][AdminNext]_vars

----------------------------------------------------------------------------
(* Claims about the settings store *)

Defaults(k) == {PyNone, BuiltinDefault(k)}

\* C1: after set(k, v) has returned on an instance, every get(k) on that instance
\* returns v, without raising, until a later set/update on it names k; whatever
\* the file held at first, whatever other keys were written in between and
\* whatever other sessions have written to the file since.
C1_SetThenGet ==
    /\ \A i \in DOMAIN mgr, k \in Keys :
          pinned[i][k] # Missing =>
              \A d \in Defaults(k) :
                  LET g == ConfigGet(mgr[i], file, k, d) IN
                  g.exc = NoExc /\ g.val = pinned[i][k]
    /\ (ret.op = "get" /\ pinned[ret.inst][ret.key] # Missing)
          => (ret.exc = NoExc /\ ret.val = pinned[ret.inst][ret.key])

\* a get has returned the value set earlier although the file now holds another
\* value for that key
C1_Witness ==
    /\ ret.op = "get"
    /\ pinned[ret.inst][ret.key] # Missing
    /\ ret.val = pinned[ret.inst][ret.key]
    /\ file.kind = "object"
    /\ file.doc[ret.key] \notin {Missing, ret.val}

\* the file is absent or holds no settings
FileHoldsNoSettings(f) ==
    \/ f.kind \in {"absent", "empty"}
    \/ f.kind = "object" /\ f.doc = EmptyDict

\* get returns the caller's default for every key and leaves the file alone, and
\* the typed getters return their built-in defaults
ReturnsDefaults(m, f) ==
    /\ \A k \in Keys : \A d \in Defaults(k) :
          LET g == ConfigGet(m, f, k, d) IN
          g.exc = NoExc /\ g.val = d /\ g.file = f
    /\ get_visible_models(m, f).val = "['GPT-4o']"
    /\ get_max_tokens(m, f).val = "1000"
    /\ get_pricing_visibility(m, f).val = "False"
    /\ get_comparison_mode(m, f).val = "False"
    /\ get_generate_prompt_enabled(m, f).val = "False"

\* C2 as stated: whenever the backing file is absent or holds no settings, get
\* returns the caller's default for every key without touching the file, and the
\* typed getters return their built-in defaults.
C2_Original ==
    FileHoldsNoSettings(file) => \A i \in DOMAIN mgr : ReturnsDefaults(mgr[i], file)

\* the instance has cached no setting: it has not loaded yet, or holds {}
CacheHoldsNoSettings(m) ==
    \/ m.cache.kind = "None"
    \/ m.cache.kind = "dict" /\ m.cache.doc = EmptyDict

\* C2 (amended): on an instance that has cached no setting and whose backing
\* file is absent or holds no settings, get returns the caller's default for
\* every key without touching the file, and the typed getters return their
\* built-in defaults.
C2_FreshStoreDefaults ==
    \A i \in DOMAIN mgr :
        (FileHoldsNoSettings(file) /\ CacheHoldsNoSettings(mgr[i]))
            => ReturnsDefaults(mgr[i], file)

\* a typed getter has returned its built-in default on a store without settings
C2_Witness ==
    /\ ret.op = "get"
    /\ ret.dflt = "['GPT-4o']"
    /\ ret.val = ret.dflt
    /\ FileHoldsNoSettings(file)
    /\ mgr[ret.inst].cache = PyDict(EmptyDict)

\* C3: when update(mapping) returns, get(k) returns mapping[k] for every key of
\* the mapping, and for every other key what get(k) returned before the call.
C3_UpdateFrame ==
    [][(ret'.op = "update" /\ ret'.exc = NoExc) =>
          \A k \in Keys :
              LET before == ConfigGet(mgr[ret'.inst], file, k, PyNone)
                  after == ConfigGet(mgr'[ret'.inst], file', k, PyNone)
              IN  /\ after.exc = NoExc
                  /\ after.val = IF ret'.arg[k] # Missing THEN ret'.arg[k] ELSE before.val
    ]_vars

\* an update has returned that names one key and leaves alone another the
\* store holds
C3_Witness ==
    /\ ret.op = "update"
    /\ ret.exc = NoExc
    /\ \E k1, k2 \in Keys :
          /\ ret.arg[k1] # Missing
          /\ ret.arg[k2] = Missing
          /\ mgr[ret.inst].cache.doc[k1] = ret.arg[k1]
          /\ mgr[ret.inst].cache.doc[k2] # Missing

\* C4 as stated: get never raises, and returns the caller's default whenever
\* the backing file is absent, unreadable or malformed in any way.
C4_GetNeverRaises ==
    ret.op = "get" =>
        /\ ret.exc = NoExc
        /\ (file.kind \in BadKinds /\ CacheHoldsNoSettings(mgr[ret.inst]))
              => ret.val = ret.dflt

----------------------------------------------------------------------------
(* Claims about sessions sharing the file *)

Writes == {"set", "update"}

\* C6 as stated: last write wins.  When a set/update of a session returns, the
\* file holds exactly the document of that session's own cache, whatever the
\* other session did before; and the write raises only when open() fails or the
\* cache is no dict, never because the other session is writing.
C6_LastWriteWins ==
    ret.op \in Writes =>
        /\ ret.exc = NoExc =>
              /\ writer = ret.inst
              /\ mgr[ret.inst].cache.kind = "dict"
              /\ file = json_dump(mgr[ret.inst].cache.doc)
        /\ (ret.io = "ok" /\ mgr[ret.inst].cache.kind = "dict") => ret.exc = NoExc

----------------------------------------------------------------------------
(* Claims about config.py *)

\* absent, or content that json.load cannot parse
AbsentOrUnparsable == {"absent", "empty", "garbage", "bytes"}

\* C5 as stated: over an absent or unparsable settings file no function of
\* config.py fails: every getter returns its default, and every setter (on a
\* disk that takes the write) completes and leaves a file in which the key just
\* set holds the new value; so does Save All Settings for its last key.
C5_NeverFatal ==
    /\ (ret.op = "get" /\ ret.prior \in AbsentOrUnparsable)
          => (ret.exc = NoExc /\ ret.val = LegacyDefault(ret.key))
    /\ (ret.op = "set" /\ ret.prior \in AbsentOrUnparsable /\ ret.io = "ok")
          => (ret.exc = NoExc /\ file.kind = "object" /\ file.doc[ret.key] = ret.val)
    /\ (ret.op = "save_all" /\ ret.prior \in AbsentOrUnparsable /\ ret.io = "ok")
          => (ret.exc = NoExc /\ file.kind = "object")

----------------------------------------------------------------------------
(* Claims about the registry and pricing *)

InAllModels(name) == \E n \in 1..Len(get_all_models) : get_all_models[n] = name

\* C7: for every display name of get_all_models(), get_model returns the record
\* of that name with the configured API identifier ('GPT-4o' gives 'gpt-4o'), and
\* get_api_name and get_pricing return that record's fields; for every other
\* name the three return None.
C7_RegistryLookup ==
    /\ \A name \in LookupNames :
          IF InAllModels(name)
          THEN /\ get_model(name) # PyNoneValue
               /\ get_model(name).display_name = name
               /\ get_model(name).api_name = models_data[name].api_name
               /\ get_api_name(name) = models_data[name].api_name
               /\ get_pricing(name) = models_data[name].pricing
          ELSE /\ get_model(name) = PyNoneValue
               /\ get_api_name(name) = PyNone
               /\ get_pricing(name) = PyNoneValue
    /\ get_api_name("GPT-4o") = "gpt-4o"
    /\ ret.op = "lookup" =>
          IF InAllModels(ret.name)
          THEN /\ ret.model # PyNoneValue
               /\ ret.model.display_name = ret.name
               /\ ret.api_name = ret.model.api_name
               /\ ret.pricing = ret.model.pricing
          ELSE /\ ret.model = PyNoneValue
               /\ ret.api_name = PyNone
               /\ ret.pricing = PyNoneValue

\* a known name whose API identifier differs from it has been looked up
C7_Witness ==
    /\ ret.op = "lookup"
    /\ ret.name = "GPT-4o"
    /\ ret.api_name = "gpt-4o"
    /\ ret.model.display_name = "GPT-4o"

\* C8: calculate_cost(i, o) is (i/1000)*input_price + (o/1000)*output_price: it is
\* 0 for no tokens, additive in each token count, and the sum of what the input
\* tokens alone and the output tokens alone cost.
C8_CostFormula ==
    /\ ret.op = "calculate_cost" =>
          ret.cost = ret.input_tokens * ret.pricing.input_price
                       + ret.output_tokens * ret.pricing.output_price
    /\ \A p \in Pricings :
          /\ calculate_cost(p, 0, 0) = 0
          /\ \A i \in 0..MaxTokens, o \in 0..MaxTokens :
                /\ calculate_cost(p, i, o) = calculate_cost(p, i, 0) + calculate_cost(p, 0, o)
                /\ calculate_cost(p, i, 0) = i * calculate_cost(p, 1, 0)
                /\ calculate_cost(p, 0, o) = o * calculate_cost(p, 0, 1)
                /\ calculate_cost(p, 1, 0) = p.input_price
                /\ calculate_cost(p, 0, 1) = p.output_price

\* a cost with both kinds of tokens has been computed
C8_Witness ==
    /\ ret.op = "calculate_cost"
    /\ ret.input_tokens > 0
    /\ ret.output_tokens > 0
    /\ ret.pricing.input_price # ret.pricing.output_price
    /\ ret.cost > 0

\* C9: get_projected_costs(base_cost) has exactly the entries '10x', '100x' and
\* '1000x', with 10, 100 and 1000 times base_cost, whatever the prices.
C9_ProjectedCosts ==
    /\ ret.op = "get_projected_costs" =>
          /\ DOMAIN ret.projected = {"10x", "100x", "1000x"}
          /\ ret.projected["10x"] = 10 * ret.cost
          /\ ret.projected["100x"] = 100 * ret.cost
          /\ ret.projected["1000x"] = 1000 * ret.cost
    /\ \A p, q \in Pricings, b \in 0..MaxBaseCost :
          get_projected_costs(p, b) = get_projected_costs(q, b)

\* a non-zero base cost has been projected
C9_Witness ==
    /\ ret.op = "get_projected_costs"
    /\ ret.cost > 0
    /\ ret.projected["1000x"] = 1000 * ret.cost

----------------------------------------------------------------------------
(* Claims about the completion client *)

\* C10: generate_response with a model name the registry does not hold raises
\* the unknown-model error, which names the model, and sends no request to the
\* remote endpoint.
C10_UnknownModel ==
    [][(ret'.op = "generate_response" /\ ~InAllModels(ret'.model_name)) =>
          /\ ret'.result = Raised("ValueError", <<"Unknown model: ", ret'.model_name>>)
          /\ sent' = sent
    ]_vars

\* the unknown-model error has been raised after a request for a known model
\* had been sent
C10_Witness ==
    /\ ret.op = "generate_response"
    /\ ret.model_name = "gpt-4o"
    /\ ret.result.kind = "raised"
    /\ ret.result.exc = "ValueError"
    /\ Len(sent) = 1

\* the n-th model of the last comparison failed: the registry does not hold it,
\* or the remote endpoint failed its request
ModelFailed(n) == ~InAllModels(ret.model_names[n]) \/ ret.remotes[n].kind = "error"

\* the text of the n-th model's error
ModelError(n) ==
    IF ~InAllModels(ret.model_names[n])
    THEN <<"Unknown model: ", ret.model_names[n]>>
    ELSE <<"remote", ret.model_names[n]>>

Positions == 1..Len(ret.model_names)

\* C12: when at least one model of the list succeeds and at least one fails,
\* generate_comparison_responses does not raise; the keys of the mapping it
\* returns are exactly the models that succeeded, each with the response to its
\* own request; the failed models are the keys of the errors it recorded, each
\* with its error, and the partial failure is logged.
C12_PartialFailure ==
    (/\ ret.op = "generate_comparison_responses"
     /\ \E n \in Positions : ModelFailed(n)
     /\ \E n \in Positions : ~ModelFailed(n))
    => /\ ret.result.kind = "dict"
       /\ ItemKeys(ret.result.items) = {ret.model_names[n] : n \in {k \in Positions : ~ModelFailed(k)}}
       /\ \A n \in Positions : ~ModelFailed(n) =>
             LET r == ItemValue(ret.result.items, ret.model_names[n]) IN
             /\ r.model_name = ret.model_names[n]
             /\ r.content = ret.remotes[n].content
             /\ r.usage = ret.remotes[n].usage
       /\ ItemKeys(ret.errors) = {ret.model_names[n] : n \in {k \in Positions : ModelFailed(k)}}
       /\ \A n \in Positions : ModelFailed(n) =>
             ItemValue(ret.errors, ret.model_names[n]) = ModelError(n)
       /\ ret.warned

\* a comparison of two models has returned the response of the second alone,
\* the first having failed at the remote endpoint
C12_Witness ==
    /\ ret.op = "generate_comparison_responses"
    /\ Len(ret.model_names) = 2
    /\ ret.remotes[1].kind = "error"
    /\ InAllModels(ret.model_names[1])
    /\ ret.result.kind = "dict"
    /\ ItemKeys(ret.result.items) = {ret.model_names[2]}
    /\ ItemKeys(ret.errors) = {ret.model_names[1]}

\* C13: when every model of a non-empty list fails, generate_comparison_responses
\* raises one RuntimeError, after it has attempted every model (each has its entry
\* in the errors, each known model has had its request), whose message lists
\* every model with its error, in the order of the list.
C13_TotalFailure ==
    (/\ ret.op = "generate_comparison_responses"
     /\ ret.model_names # <<>>
     /\ \A n \in Positions : ModelFailed(n))
    => /\ ret.result = Raised("RuntimeError",
                              <<"All models failed to generate responses: ",
                                [n \in Positions |-> <<ret.model_names[n], ModelError(n)>>]>>)
       /\ ret.errors = [n \in Positions |-> <<ret.model_names[n], ModelError(n)>>]
       /\ ret.requests = Cardinality({n \in Positions : InAllModels(ret.model_names[n])})

\* a comparison of two models has raised, the first unknown and the second
\* failed by the remote endpoint
C13_Witness ==
    /\ ret.op = "generate_comparison_responses"
    /\ Len(ret.model_names) = 2
    /\ ~InAllModels(ret.model_names[1])
    /\ InAllModels(ret.model_names[2])
    /\ ret.remotes[2].kind = "error"
    /\ ret.result.kind = "raised"
    /\ ret.requests = 1

----------------------------------------------------------------------------
(* Claims about the main view and the chain view *)

\* the presses that make one call of generate_response
SingleCallOps == {"generate", "start", "continue"}

\* the text of the error the last press showed, without the stage prefix
ShownErrorText == IF ret.op = "generate" THEN ret.error ELSE ret.error[Len(ret.error)]

\* C11: nothing is retried. A press of Generate Response in single-model mode,
\* of Start Chain or of Continue sends at most one request to the remote
\* endpoint; when the endpoint fails that one request, the failure is shown as
\* the error of the press, with no further request and no rerun.
C11_NoRetries ==
    ret.op \in SingleCallOps =>
        /\ Len(sent) <= 1
        /\ ret.requests = Len(sent)
        /\ (Len(sent) = 1 /\ ret.remote.kind = "error") =>
              /\ ret.error # NoError
              /\ ShownErrorText = <<"remote", ret.model>>
              /\ ~ret.rerun

\* Start Chain has sent its one request and the remote endpoint has failed it
C11_Witness ==
    /\ ret.op = "start"
    /\ ret.remote.kind = "error"
    /\ Len(sent) = 1
    /\ ret.error = <<"Error in Stage 1: ", <<"remote", ret.model>>>>

\* the request of the last press carries the configuration of its stage: the
\* model's API name, the temperature, the token limit of the view, the system
\* prompt when it is not blank, and the given text as the only user message
CarriesConfig(request, user_text) ==
    /\ request.model = get_api_name(ret.config.model)
    /\ request.temperature = ret.config.temperature
    /\ request.max_tokens = 1000
    /\ request.messages[Len(request.messages)] = [role |-> "user", content |-> user_text]
    /\ IF strip(ret.config.system_prompt.chars) # <<>>
       THEN /\ Len(request.messages) = 2
            /\ request.messages[1] = [role |-> "system", content |-> ret.config.system_prompt]
       ELSE Len(request.messages) = 1

\* C14: Start fires only with a seed prompt that is not blank; it sends one
\* request (none for a model the registry does not know), with the seed prompt as
\* typed as its user message and the configuration of stage 1; when the endpoint
\* replies, the reply is the stored response of stage 1, the pointer is 2 and the
\* seed prompt is recorded in the chain state.
C14_ChainStart ==
    ret.op = "start" =>
        /\ strip(ret.user_prompt.chars) # <<>>
        /\ Len(sent) = (IF InAllModels(ret.model) THEN 1 ELSE 0)
        /\ \A n \in 1..Len(sent) : CarriesConfig(sent[n], ret.user_prompt)
        /\ (Len(sent) = 1 /\ ret.remote.kind = "reply") =>
              /\ session.chain_state.responses[1] # Absent
              /\ session.chain_state.responses[1].content = ret.remote.content
              /\ session.chain_state.responses[1].model_name = ret.model
              /\ session.chain_state.stage = 2
              /\ session.chain_state.user_prompt = ret.user_prompt
              /\ ret.error = NoError

\* Start has succeeded with a seed prompt that ends in a space
C14_Witness ==
    /\ ret.op = "start"
    /\ ret.user_prompt = Str(<<"b", " ">>)
    /\ ret.remote.kind = "reply"
    /\ Len(sent) = 1
    /\ session.chain_state.stage = 2
    /\ session.chain_state.user_prompt = Str(<<"b", " ">>)

\* C15: in a state where stage N-1 has no stored response, a press of Continue
\* to stage N does not happen (its button is disabled), and a direct call of
\* _continue_chain for stage N leaves the whole session state unchanged, chain
\* state included, and sends no request.
C15_Gating ==
    [][(/\ ret'.op \in {"continue", "direct_continue"}
        /\ session.chain_state.responses[ret'.stage_num - 1] = Absent)
       => /\ ret'.op = "direct_continue"
          /\ session' = session
          /\ sent' = <<>>
          /\ ret'.requests = 0
          /\ ret'.error # NoError]_vars

\* _continue_chain has been called for stage 3 after a successful Start, with
\* no stored response of stage 2
C15_Witness ==
    /\ ret.op = "direct_continue"
    /\ ret.stage_num = 3
    /\ session.chain_state.responses[1] # Absent
    /\ session.chain_state.responses[2] = Absent
    /\ session.chain_state.stage = 2
    /\ ret.error = <<"Error in Stage ", 3, "KeyError", 2>>

\* the text of the user message of a request
UserText(request) == request.messages[Len(request.messages)].content

\* C16: the request of Continue to stage 2 has the text of the stored response
\* of stage 1 as its user message; that of Continue to stage 3 has the text of
\* the stored response of stage 2, and with 'include original prompt' checked
\* the seed prompt of the chain state under "Original Request:" followed by that
\* text under "Previous Stage Output:". The seed prompt of the chain state is
\* the prompt of the most recent successful Start: only a successful Start
\* writes it, and only Reset clears it.
C16_ChainInput ==
    [][/\ ret'.op = "continue" =>
             /\ Len(sent') = (IF InAllModels(ret'.model) THEN 1 ELSE 0)
             /\ \A n \in 1..Len(sent') :
                   UserText(sent'[n]) =
                       IF ret'.stage_num = 2
                       THEN session.chain_state.responses[1].content
                       ELSE IF ~ret'.include_original
                       THEN session.chain_state.responses[2].content
                       ELSE Str(<<"Original Request:\n">>
                                \o session.chain_state.user_prompt.chars
                                \o <<"\n\n---\n\nPrevious Stage Output:\n">>
                                \o session.chain_state.responses[2].content.chars)
       /\ (ret'.op = "start" /\ ret'.error = NoError) =>
             session'.chain_state.user_prompt = ret'.user_prompt
       /\ session'.chain_state.user_prompt # session.chain_state.user_prompt =>
             \/ ret'.op = "start" /\ ret'.error = NoError
             \/ ret'.op = "reset" /\ session'.chain_state.user_prompt = Str(<<>>)]_vars

\* Continue to stage 3 has sent the seed prompt "b " and the text of stage 2
\* with 'include original prompt' checked
C16_Witness ==
    /\ ret.op = "continue"
    /\ ret.stage_num = 3
    /\ ret.include_original
    /\ Len(sent) = 1
    /\ session.chain_state.user_prompt = Str(<<"b", " ">>)
    /\ session.chain_state.responses[2] # Absent
    /\ session.chain_state.responses[2].content = Str(<<"q">>)
    /\ UserText(sent[1]) = Str(<<"Original Request:\n", "b", " ",
                                 "\n\n---\n\nPrevious Stage Output:\n", "q">>)

\* C17: Reset Chain can be pressed in every state of the session, and the press
\* leaves the chain state of a new session (pointer at stage 1, no stored
\* response for any of the three stages, empty seed prompt) and sends no request.
C17_Reset ==
    /\ ENABLED ResetChain
    /\ ret.op = "reset" =>
          /\ session.chain_state.stage = 1
          /\ \A n \in 1..3 : session.chain_state.responses[n] = Absent
          /\ session.chain_state.user_prompt = Str(<<>>)
          /\ sent = <<>>
          /\ ret.requests = 0
          /\ ret.error = NoError

\* Reset Chain has been pressed in a session that keeps a response of the main view
C17_Witness ==
    /\ ret.op = "reset"
    /\ session.chain_state = [stage |-> 1, responses |-> <<Absent, Absent, Absent>>,
                              user_prompt |-> Str(<<>>)]
    /\ session.last_response # Absent

\* C18: no stage is re-run in place. The stored response of a stage changes only
\* from absent to present, by Start or Continue, or from present to absent, by
\* Reset, which discards the responses of all three stages.
C18_NoRerunInPlace ==
    [][\A n \in 1..3 :
          session'.chain_state.responses[n] # session.chain_state.responses[n] =>
              \/ /\ session.chain_state.responses[n] = Absent
                 /\ ret'.op \in {"start", "continue"}
              \/ /\ ret'.op = "reset"
                 /\ \A m \in 1..3 : session'.chain_state.responses[m] = Absent]_vars

\* the completion call for a model fails: the registry does not know the
\* model, or the remote endpoint fails the request
CallFails(model, remote) == ~InAllModels(model) \/ remote.kind = "error"

\* a completion call of the press r has failed
SomeCallFailed(r) ==
    CASE r.op = "generate" ->
            strip(r.user_prompt.chars) # <<>> /\ CallFails(r.model, r.remote)
      [] r.op = "generate_comparison" ->
            /\ strip(r.user_prompt.chars) # <<>>
            /\ \E n \in 1..Len(r.visible_models) : CallFails(r.visible_models[n], r.remote)
      [] r.op \in {"start", "continue"} -> CallFails(r.model, r.remote)
      [] OTHER -> FALSE

\* the call of the completion service made by the press r has raised: the one
\* completion call of the press has failed, or in comparison mode the call for
\* every visible model has
ServiceCallRaised(r) ==
    CASE r.op = "generate" ->
            strip(r.user_prompt.chars) # <<>> /\ CallFails(r.model, r.remote)
      [] r.op = "generate_comparison" ->
            /\ strip(r.user_prompt.chars) # <<>>
            /\ \A n \in 1..Len(r.visible_models) : CallFails(r.visible_models[n], r.remote)
      [] r.op \in {"start", "continue"} -> CallFails(r.model, r.remote)
      [] OTHER -> FALSE

\* the button of the press r can be pressed again with the same inputs
StillEnabled(r, ss) ==
    CASE r.op = "start" -> ~start_disabled(r.user_prompt)
      [] r.op = "continue" -> ~continue_disabled(ss.chain_state, r.stage_num)
      [] OTHER -> TRUE

Blank(text) == \A n \in 1..Len(text.chars) : text.chars[n] \in {" ", "\t", "\n", "\r"}

C21_NoSkippedStage ==
    /\ \A n \in 1..3 :
          n < session.chain_state.stage => session.chain_state.responses[n] # Absent
    /\ \A n \in 1..3 : stage_status(session.chain_state, n) # "Skipped"

\* Continue to stage 2 has succeeded: the pointer is at 3 with two stages below
\* it, and stage 3 is ready to run
C21_Witness ==
    /\ ret.op = "continue"
    /\ ret.stage_num = 2
    /\ ret.error = NoError
    /\ session.chain_state.stage = 3
    /\ stage_status(session.chain_state, 1) = "Completed"
    /\ stage_status(session.chain_state, 2) = "Completed"
    /\ stage_status(session.chain_state, 3) = "Ready to run"

\* the stages that have a stored response
StoredStages == {n \in 1..3 : session.chain_state.responses[n] # Absent}

\* C27: the pointer is 1, 2 or 3; stage 2 has a stored response only if stage 1
\* has one, and stage 3 only if stage 2 has one; the 'Chain completed' message
\* is shown exactly when all three stages have a stored response.
C27_WellFormed ==
    /\ session.chain_state.stage \in {1, 2, 3}
    /\ StoredStages \in {{}, {1}, {1, 2}, {1, 2, 3}}
    /\ chain_completed(session.chain_state) <=> StoredStages = {1, 2, 3}

\* Continue to stage 3 has succeeded: the chain is completed with the pointer at 3
C27_Witness ==
    /\ ret.op = "continue"
    /\ ret.stage_num = 3
    /\ ret.error = NoError
    /\ session.chain_state.stage = 3
    /\ StoredStages = {1, 2, 3}
    /\ chain_completed(session.chain_state)

\* C25: whenever stage N-1 has a stored response and stage N has none, for N
\* in {2, 3}, the Continue button of stage N is enabled.
C25_ProgressAvailable ==
    \A n \in {2, 3} :
        (/\ session.chain_state.responses[n - 1] # Absent
         /\ session.chain_state.responses[n] = Absent)
        => ~continue_disabled(session.chain_state, n)

\* C26: a stored response of stage N, for N in {2, 3}, was generated from the
\* text of the response now stored under stage N-1. The input of a response is
\* fixed when it is generated, so this is: a response is stored under stage N by
\* a Continue whose request carried the text stored under stage N-1 (for stage 3
\* with 'include original prompt', under the stored seed prompt), and while it
\* stays stored the text under stage N-1 does not change.
C26_DataFlow ==
    [][\A n \in {2, 3} :
          session'.chain_state.responses[n] # Absent =>
              /\ session'.chain_state.responses[n - 1] # Absent
              /\ IF session'.chain_state.responses[n] # session.chain_state.responses[n]
                 THEN /\ ret'.op = "continue"
                      /\ ret'.stage_num = n
                      /\ Len(sent') = 1
                      /\ UserText(sent'[1]) =
                            IF n = 3 /\ ret'.include_original
                            THEN Str(<<"Original Request:\n">>
                                     \o session'.chain_state.user_prompt.chars
                                     \o <<"\n\n---\n\nPrevious Stage Output:\n">>
                                     \o session'.chain_state.responses[n - 1].content.chars)
                            ELSE session'.chain_state.responses[n - 1].content
                 ELSE /\ session.chain_state.responses[n - 1] # Absent
                      /\ session'.chain_state.responses[n - 1].content
                            = session.chain_state.responses[n - 1].content]_vars

\* the models of the visible list that the registry knows, in list order
KnownVisible == SelectSeq(ret.visible_models, InAllModels)

----------------------------------------------------------------------------
(* More claims about the completion service *)

\* the positions of the model list, in order
PositionSeq == [n \in Positions |-> n]

IsKnownPosition(n) == InAllModels(ret.model_names[n])

\* the requests the last call sent
NewRequests == SubSeq(sent, Len(sent) - ret.requests + 1, Len(sent))

\* C23: generate_comparison_responses calls generate_response once for every
\* entry of the model list, in list order, whatever the calls before it did:
\* the requests it sends are those of the known models of the list, one each and
\* in list order; every entry that fails has its error recorded and every entry
\* that succeeds has its response collected, both in list order.
C23_OncePerEntryInOrder ==
    ret.op = "generate_comparison_responses" =>
        LET known == SelectSeq(PositionSeq, IsKnownPosition)
            failed == SelectSeq(PositionSeq, ModelFailed)
            succeeded == SelectSeq(PositionSeq, LAMBDA n : ~ModelFailed(n))
            collected == IF ret.result.kind = "dict" THEN ret.result.items ELSE <<>>
        IN  /\ ret.requests = Len(known)
            /\ \A k \in 1..Len(known) :
                  NewRequests[k].model = get_api_name(ret.model_names[known[k]])
            /\ ret.errors = [k \in 1..Len(failed) |->
                                <<ret.model_names[failed[k]], ModelError(failed[k])>>]
            /\ ret.result.kind = "dict" =>
                  /\ Len(collected) = Len(succeeded)
                  /\ \A k \in 1..Len(succeeded) :
                        /\ collected[k][1] = ret.model_names[succeeded[k]]
                        /\ collected[k][2].content = ret.remotes[succeeded[k]].content
            /\ ret.result.kind = "raised" => succeeded = <<>>

\* a comparison of two known models has sent both requests in list order, the
\* remote endpoint failing the first and answering the second
C23_Witness ==
    /\ ret.op = "generate_comparison_responses"
    /\ Len(ret.model_names) = 2
    /\ InAllModels(ret.model_names[1])
    /\ InAllModels(ret.model_names[2])
    /\ ret.remotes[1].kind = "error"
    /\ ret.remotes[2].kind = "reply"
    /\ ret.requests = 2
    /\ NewRequests[1].model = get_api_name(ret.model_names[1])
    /\ NewRequests[2].model = get_api_name(ret.model_names[2])

\* C29: generate_comparison_responses with an empty model list sends no
\* request, does not raise and returns the empty mapping, with no error recorded
\* and no warning logged; it raises only when the list is not empty and every
\* model of it has failed.
C29_EmptyList ==
    ret.op = "generate_comparison_responses" =>
        /\ ret.model_names = <<>> =>
              /\ ret.requests = 0
              /\ ret.result = [kind |-> "dict", items |-> <<>>]
              /\ ret.errors = <<>>
              /\ ~ret.warned
        /\ ret.result.kind = "raised" =>
              /\ ret.model_names # <<>>
              /\ \A n \in Positions : ModelFailed(n)

\* a comparison of no model has returned, after an earlier call has sent a request
C29_Witness ==
    /\ ret.op = "generate_comparison_responses"
    /\ ret.model_names = <<>>
    /\ ret.result.kind = "dict"
    /\ ret.result.items = <<>>
    /\ sent # <<>>

\* C24: when the remote endpoint replies to generate_response for a model of
\* the registry, the ModelResponse returned has the text of the reply and its
\* prompt, completion and total token counts, the display name the caller asked
\* for as model_name, and as cost the number prompt tokens times the input price
\* plus completion tokens times the output price of that display name.
C24_ResponseOfReply ==
    (/\ ret.op = "generate_response"
     /\ InAllModels(ret.model_name)
     /\ ret.remote.kind = "reply")
    => /\ ret.result.kind = "ModelResponse"
       /\ ret.result.content = ret.remote.content
       /\ ret.result.usage.prompt_tokens = ret.remote.usage.prompt_tokens
       /\ ret.result.usage.completion_tokens = ret.remote.usage.completion_tokens
       /\ ret.result.usage.total_tokens = ret.remote.usage.total_tokens
       /\ ret.result.model_name = ret.model_name
       /\ ret.result.cost # PyNoneValue
       /\ ret.result.cost.kind = "float"
       /\ ret.result.cost.value =
             ret.remote.usage.prompt_tokens * models_data[ret.model_name].pricing.input_price
             + ret.remote.usage.completion_tokens
                  * models_data[ret.model_name].pricing.output_price

\* generate_response for GPT-4o has returned the reply of the remote endpoint,
\* of MaxTokens prompt tokens and no completion tokens, under the display name
C24_Witness ==
    /\ ret.op = "generate_response"
    /\ ret.model_name = "GPT-4o"
    /\ ret.remote.kind = "reply"
    /\ ret.remote.usage.prompt_tokens = MaxTokens
    /\ ret.remote.usage.completion_tokens = 0
    /\ ret.result.kind = "ModelResponse"
    /\ ret.result.model_name = "GPT-4o"
    /\ ret.result.cost.value = MaxTokens * 2212000

----------------------------------------------------------------------------
(* More claims about the settings store *)

\* what get(key, default) returns, or raises, on instance i over file f
GetOutcome(m, f, key, default) ==
    LET r == ConfigGet(m, f, key, default) IN [val |-> r.val, exc |-> r.exc]

\* C28: when the write of the backing file fails during set or update, the
\* OSError reaches the caller, and a get on that instance returns afterwards,
\* for every key and default, what it returned before the failed call, provided
\* the file is what it was.
C28_FailedSaveFrame ==
    [][(ret'.op \in {"set", "update"} /\ ret'.exc = "OSError" /\ file' = file) =>
          \A k \in Keys : \A d \in {PyNone, BuiltinDefault(k)} :
              GetOutcome(mgr'[Self], file', k, d) = GetOutcome(mgr[Self], file, k, d)]_vars

----------------------------------------------------------------------------
(* Claims about the admin page *)

\* C30: the is_admin flag of a session starts false; the settings file is
\* written, and Save All Settings runs, only in a state where the flag is true;
\* the flag becomes true only by a Login whose password equals the configured
\* one, and false again by Logout and by nothing else; a Login with another
\* password shows 'Incorrect password' and changes neither the flag nor the file.
C30_AdminGating ==
    [][/\ ret.op = "init" => ~session.is_admin
       /\ file' # file => (session.is_admin /\ ret'.op = "save_all")
       /\ ret'.op = "save_all" => (session.is_admin /\ session'.is_admin)
       /\ (~session.is_admin /\ session'.is_admin) =>
             (ret'.op = "login" /\ ret'.password = "admin123")
       /\ (session.is_admin /\ ~session'.is_admin) => ret'.op = "logout"
       /\ ret'.op = "logout" => ~session'.is_admin
       /\ (ret'.op = "login" /\ ret'.password # "admin123") =>
             /\ session' = session
             /\ file' = file
             /\ ret'.error = <<"Incorrect password">>]_vars

\* a session that logged in with the configured password has pressed Save All
\* Settings and the four settings are in the file
C30_Witness ==
    /\ ret.op = "save_all"
    /\ ret.exc = NoExc
    /\ session.is_admin
    /\ file.kind = "object"
    /\ \A k \in LegacyKeys : file.doc[k] # Missing

====
